---------------------------- MODULE Spec2Model ----------------------------
(***************************************************************************)
(* A model of the SASS instruction-description parser (sassas): the lexer, *)
(* the integer-literal evaluator, the data model with its lookup rules     *)
(* (Table, RegisterGroup) and the section parser with its error recovery.  *)
(*                                                                         *)
(* Conventions.                                                            *)
(*  - A character is a one-character string, a text a sequence of them.    *)
(*  - A machine integer is a "word": the little-endian sequence of its     *)
(*    16-bit limbs (two limbs for `unsigned`, four for `std::uint64_t`),   *)
(*    so that 32- and 64-bit wrap-around is computed exactly.              *)
(*  - std::optional is modelled by the value None for std::nullopt.        *)
(***************************************************************************)
EXTENDS Integers, Sequences, FiniteSets, TLC

VARIABLES
    \* ---- Table (sassas/isa/table.hpp)
    content_,       \* Table::content_  : flat sequence of unsigned words
    key_size_,      \* Table::key_size_
    t_rows,         \* history: the rows handed to append_item, in order
    t_query,        \* Some([rows, keys]) of the last get_value call: the rows
                    \* appended before it and its argument (None before)
    t_result,       \* what the last get_value call returned
    \* ---- RegisterGroup (sassas/isa/register.hpp)
    groups,         \* two RegisterGroup objects: groups[g] is registers_
    r_query,        \* Some([regs, name, other]) of the last find(name) call: the
                    \* group searched, its argument, the other group (None before)
    r_result,       \* what the last find call returned
    \* ---- Parser::get_integer_constant (src/parser/parser.cpp)
    i_token,        \* content of the Integer token handed to the call
    i_bits,         \* its `bits` argument
    i_signedness,   \* its `signedness` argument
    i_out,          \* Some([value, note]) once the call returned (None before)
    \* ---- BitMask (sassas/isa/functional_unit.hpp)
    b_description,  \* the argument of the constructor BitMask(str_description)
    b_mask,         \* Some(the ranges of the BitMask) once constructed (None before)
    \* ---- ISAParser::RangeExpr (sassas/parser/isa_parser.hpp)
    x_begin,        \* the first bound of a range expression (begin..end)
    x_end,          \* its second bound
    x_out,          \* Some([value, diagnostic, aborted]) once it was evaluated
    \* ---- ISAParser (src/parser/isa_parser.cpp), with its Lexer
    source_,        \* Lexer::source_
    current_,       \* Lexer::current_, as an offset into source_
    cur_token_,     \* Lexer::cur_token_
    diagnostics_,   \* Parser::diagnostics_
    pc,             \* where parse() stands
    has_errors,     \* `has_errors` of parse()
    parse_result,   \* `result` of parse(): the ISA model
    frame,          \* the locals of the section routine parse() has called
    until,          \* the activation of Lexer::lex_until, with its caller
    outcome,        \* the optional parse() returned (None until then, too)
    returns,        \* history: what each section routine returned, and where
    stop,           \* history: how the loop of parse() was left
    recover_from    \* history: the token and the diagnostics when parse() began to recover

tableVars == <<content_, key_size_, t_rows, t_query, t_result>>
regVars   == <<groups, r_query, r_result>>
intVars   == <<i_token, i_bits, i_signedness, i_out>>
maskVars  == <<b_description, b_mask>>
rangeVars == <<x_begin, x_end, x_out>>
parseVars == <<source_, current_, cur_token_, diagnostics_, pc, has_errors, parse_result,
               frame, until, outcome, returns, stop, recover_from>>
vars      == <<tableVars, regVars, intVars, maskVars, rangeVars, parseVars>>

\* What an operation on one object leaves alone.
notTableVars == <<regVars, intVars, maskVars, rangeVars, parseVars>>
notRegVars   == <<tableVars, intVars, maskVars, rangeVars, parseVars>>
notIntVars   == <<tableVars, regVars, maskVars, rangeVars, parseVars>>
notMaskVars  == <<tableVars, regVars, intVars, rangeVars, parseVars>>
notRangeVars == <<tableVars, regVars, intVars, maskVars, parseVars>>

\* A local variable of the code: `value` bound to the parameter of Body.
Let(value, Body(_)) == Body(value)

\* std::optional<T>: the empty sequence is std::nullopt, <<v>> holds v.
None == <<>>
Some(v) == <<v>>

-----------------------------------------------------------------------------
(* Bounds of the model.                                                      *)

MaxKeySize == 2     \* largest key_size a Table is constructed with
MaxRows    == 2     \* rows appended to a Table
MaxRegs    == 3     \* registers held by the two RegisterGroups together
MaxLitLen  == 3     \* characters of an exhaustively enumerated integer literal
MaxMaskLen == 6     \* characters of a description handed to BitMask
MaxBound   == 2     \* bounds of a range expression, counted from 0, 2^16 and 2^32
MaxSourceLen == 3   \* characters of a source text handed to the lexer alone
MaxFrags   == 2     \* fragments a source text handed to parse() is made of

-----------------------------------------------------------------------------
(* Characters.                                                               *)

UpperSeq == <<"A","B","C","D","E","F","G","H","I","J","K","L","M",
              "N","O","P","Q","R","S","T","U","V","W","X","Y","Z">>
LowerSeq == <<"a","b","c","d","e","f","g","h","i","j","k","l","m",
              "n","o","p","q","r","s","t","u","v","w","x","y","z">>
DigitSeq == <<"0","1","2","3","4","5","6","7","8","9">>

Range(s) == { s[i] : i \in DOMAIN s }
IndexOf(c, s) == CHOOSE i \in DOMAIN s : s[i] = c

\* The printable ASCII characters, from the space (code 32) to "~" (126);
\* code 96 is written "<grave>".
Printable == <<" ", "!", "\"", "#", "$", "%", "&", "'", "(", ")", "*", "+", ",", "-", ".", "/",
               "0", "1", "2", "3", "4", "5", "6", "7", "8", "9", ":", ";", "<", "=", ">", "?",
               "@", "A", "B", "C", "D", "E", "F", "G", "H", "I", "J", "K", "L", "M", "N", "O",
               "P", "Q", "R", "S", "T", "U", "V", "W", "X", "Y", "Z", "[", "\\", "]", "^", "_",
               "<grave>", "a", "b", "c", "d", "e", "f", "g", "h", "i", "j", "k", "l", "m", "n", "o",
               "p", "q", "r", "s", "t", "u", "v", "w", "x", "y", "z", "{", "|", "}", "~">>

\* The character code, and the character of a code (static_cast<char>).
Ord(c) == IF c = "\n" THEN 10 ELSE IF c = "\t" THEN 9 ELSE 31 + IndexOf(c, Printable)
Chr(n) == IF n = 10 THEN "\n" ELSE IF n = 9 THEN "\t" ELSE Printable[n - 31]

\* <cctype> in the "C" locale.
isdigit(c) == c \in Range(DigitSeq)
isalpha(c) == c \in Range(UpperSeq) \cup Range(LowerSeq)
isalnum(c) == isdigit(c) \/ isalpha(c)
isspace(c) == c \in {" ", "\n", "\t"}

\* std::tolower in the "C" locale.
tolower(c) == IF c \in Range(UpperSeq) THEN LowerSeq[IndexOf(c, UpperSeq)] ELSE c

-----------------------------------------------------------------------------
(* Words: exact fixed-width unsigned arithmetic on 16-bit limbs.             *)

LimbBase == 2^16
LimbMax  == LimbBase - 1

\* The word of `n` limbs whose value is the small natural v (v < 2^31).
Word(v, n) == [i \in 1..n |-> IF i = 1 THEN v % LimbBase
                              ELSE IF i = 2 THEN v \div LimbBase ELSE 0]
U32(v) == Word(v, 2)
U64(v) == Word(v, 4)

\* x + d modulo 2^(16 n), for a small natural d: the limbs from the i-th on,
\* `carry` entering limb i.
RECURSIVE WordAddFrom(_, _, _)
WordAddFrom(x, i, carry) ==
    IF i > Len(x) THEN <<>>
    ELSE <<(x[i] + carry) % LimbBase>>
         \o WordAddFrom(x, i + 1, (x[i] + carry) \div LimbBase)
WordAdd(x, d) == WordAddFrom(x, 1, d)

\* Unsigned comparison, most significant limb first.
RECURSIVE WordLessFrom(_, _, _)
WordLessFrom(x, y, i) ==
    IF i = 0 THEN FALSE
    ELSE IF x[i] # y[i] THEN x[i] < y[i]
    ELSE WordLessFrom(x, y, i-1)
WordLess(x, y) == WordLessFrom(x, y, Len(x))

\* ~x, -x and x - 1 modulo 2^(16 n).
WordNot(x) == [i \in DOMAIN x |-> LimbMax - x[i]]
WordNeg(x) == WordAdd(WordNot(x), 1)
WordSub1(x) == WordNot(WordAdd(WordNot(x), 1))

\* x + y and x - y modulo 2^(16 n).
RECURSIVE WordPlusFrom(_, _, _, _)
WordPlusFrom(x, y, i, carry) ==
    IF i > Len(x) THEN <<>>
    ELSE <<(x[i] + y[i] + carry) % LimbBase>>
         \o WordPlusFrom(x, y, i + 1, (x[i] + y[i] + carry) \div LimbBase)
WordPlus(x, y) == WordPlusFrom(x, y, 1, 0)
WordMinus(x, y) == WordPlus(x, WordNeg(y))

\* static_cast<std::uint64_t>(1) << k, for k < 64.
WordShl1(k) == [i \in 1..4 |-> IF i = (k \div 16) + 1 THEN 2^(k % 16) ELSE 0]

\* x * b modulo 2^(16 n), for a small natural b: the limbs from the i-th on,
\* `carry` entering limb i.
RECURSIVE WordMulFrom(_, _, _, _)
WordMulFrom(x, b, i, carry) ==
    IF i > Len(x) THEN <<>>
    ELSE <<(x[i] * b + carry) % LimbBase>>
         \o WordMulFrom(x, b, i + 1, (x[i] * b + carry) \div LimbBase)
WordMul(x, b) == WordMulFrom(x, b, 1, 0)

\* x / b, for a small positive b: the limbs up to the i-th, `rem` being the
\* remainder that leaves limb i + 1.
RECURSIVE WordDivFrom(_, _, _, _)
WordDivFrom(x, b, i, rem) ==
    IF i = 0 THEN <<>>
    ELSE WordDivFrom(x, b, i - 1, (rem * LimbBase + x[i]) % b)
         \o <<(rem * LimbBase + x[i]) \div b>>
WordDiv(x, b) == WordDivFrom(x, b, Len(x), 0)

-----------------------------------------------------------------------------
(* Table: sassas/isa/table.hpp                                               *)

\* MATCH_ANY as it would be if it were a value that no 32-bit literal has.
MATCH_ANY_apart == <<0, 0, 1>>
\* static constexpr unsigned MATCH_ANY = static_cast<unsigned>(-1)
MATCH_ANY == <<LimbMax, LimbMax>>

\* Table::append_item: the keys, then the value, at the end of content_.
append_item(content, keys, value) == content \o keys \o <<value>>

\* The predicate get_value hands to std::ranges::equal.
KeyMatchFirstOnly(lhs, rhs) == lhs = rhs
KeyMatch(lhs, rhs) == lhs = rhs \/ lhs = MATCH_ANY

\* std::ranges::equal(std::views::counted(iter, key_size), keys, pred) with
\* iter at 0-based offset `at` of content.
RowMatches(content, at, key_size, keys) ==
    /\ Len(keys) = key_size
    /\ \A j \in 1..key_size : KeyMatch(content[at + j], keys[j])

\* Table::get_value: the loop over content_ from the iterator at offset
\* `at`, advancing by key_size + 1 until it equals content_.end().
RECURSIVE get_value_from(_, _, _, _)
get_value_from(content, key_size, keys, at) ==
    IF at = Len(content) THEN None
    ELSE IF RowMatches(content, at, key_size, keys)
         THEN Some(content[at + key_size + 1])
         ELSE get_value_from(content, key_size, keys, at + key_size + 1)

get_value(content, key_size, keys) == get_value_from(content, key_size, keys, 0)

KeyValues == { U32(1), MATCH_ANY }
QueryValues == { U32(1), U32(2) }
Values == { U32(5), U32(9) }

TableInit ==
    /\ content_ = <<>>
    /\ key_size_ \in 0..MaxKeySize      \* Table() and Table(key_size)
    /\ t_rows = <<>>
    /\ t_query = None
    /\ t_result = None

\* table.append_item(keys, value), with the asserted keys.size() == key_size_
TableAppend ==
    /\ Len(t_rows) < MaxRows
    /\ \E keys \in [1..key_size_ -> KeyValues], value \in Values :
          /\ content_' = append_item(content_, keys, value)
          /\ t_rows' = Append(t_rows, [keys |-> keys, value |-> value])
    /\ UNCHANGED <<key_size_, t_query, t_result, notTableVars>>

\* table.get_value(keys), with the asserted keys.size() == key_size_
TableGet ==
    /\ \E keys \in [1..key_size_ -> QueryValues] :
          /\ t_query' = Some([rows |-> t_rows, keys |-> keys])
          /\ t_result' = get_value(content_, key_size_, keys)
    /\ UNCHANGED <<content_, key_size_, t_rows, notTableVars>>

-----------------------------------------------------------------------------
(* RegisterGroup: sassas/isa/register.hpp                                    *)

\* registers_.emplace_back(name, value)
append_register(regs, name, value) == Append(regs, [name |-> name, value |-> value])

\* append_register(name): the last register's value + 1 (unsigned), or 0.
default_value(regs) == IF regs = <<>> THEN U32(0)
                       ELSE WordAdd(regs[Len(regs)].value, 1)

\* registers_.insert(registers_.end(), other.begin(), other.end())
concat_with(regs, other) == regs \o other

\* std::ranges::equal(reg_name, name, equal_to, tolower, tolower)
NameEqualsCaseSensitive(reg_name, name) == reg_name = name
NameEquals(reg_name, name) ==
    /\ Len(reg_name) = Len(name)
    /\ \A i \in 1..Len(name) : tolower(reg_name[i]) = tolower(name[i])

\* RegisterGroup::find(name): the loop over registers_ | std::views::reverse,
\* at index i (counted from the front).
RECURSIVE find_from(_, _, _)
find_from(regs, name, i) ==
    IF i = 0 THEN None
    ELSE IF NameEquals(regs[i].name, name) THEN Some(regs[i].value)
    ELSE find_from(regs, name, i - 1)

find(regs, name) == find_from(regs, name, Len(regs))

RegNames == { <<"D","C">>, <<"d","c">>, <<"D">> }
RegValues == { U32(0), U32(2) }
TotalRegs == Len(groups[1]) + Len(groups[2])
GroupIds == {1, 2}

RegInit ==
    /\ groups = [g \in GroupIds |-> <<>>]
    /\ r_query = None
    /\ r_result = None

\* groups[g].append_register(name, value)
RegAppendValue ==
    /\ \E g \in GroupIds, name \in RegNames, value \in RegValues :
          /\ TotalRegs < MaxRegs
          /\ groups' = [groups EXCEPT ![g] = append_register(@, name, value)]
    /\ UNCHANGED <<r_query, r_result, notRegVars>>

\* groups[g].append_register(name)
RegAppendDefault ==
    /\ \E g \in GroupIds, name \in RegNames :
          /\ TotalRegs < MaxRegs
          /\ groups' = [groups EXCEPT ![g] = append_register(@, name, default_value(@))]
    /\ UNCHANGED <<r_query, r_result, notRegVars>>

\* groups[g].concat_with(groups[h]): the argument is taken by value (a copy).
RegConcat ==
    /\ \E g \in GroupIds, h \in GroupIds :
          /\ TotalRegs + Len(groups[h]) <= MaxRegs
          /\ groups[h] # <<>>
          /\ groups' = [groups EXCEPT ![g] = concat_with(@, groups[h])]
    /\ UNCHANGED <<r_query, r_result, notRegVars>>

\* groups[g].find(name)
RegFind ==
    /\ \E g \in GroupIds, name \in RegNames :
          /\ r_query' = Some([regs |-> groups[g], name |-> name,
                               other |-> groups[3 - g]])
          /\ r_result' = find(groups[g], name)
    /\ UNCHANGED <<groups, notRegVars>>

-----------------------------------------------------------------------------
(* IntegerParser and Parser::get_integer_constant: src/parser/parser.cpp     *)

remove_prefix(s, n) == SubSeq(s, n + 1, Len(s))

\* IntegerParser(token, bits, signedness)
IntegerParser(content, location_begin, bits, signedness) ==
    [content_ |-> content, bits_ |-> bits, signedness_ |-> signedness,
     cur_pos_ |-> location_begin, negative_ |-> FALSE, base_ |-> 10]

\* std::ranges::distance(begin, std::ranges::find_if_not(content, isspace))
RECURSIVE while_space_count(_)
while_space_count(content) ==
    IF content = <<>> \/ ~isspace(content[1]) THEN 0
    ELSE 1 + while_space_count(Tail(content))

\* parse_sign as it would be if it dropped the sign without recording it.
parse_sign_forgetting(p) ==
    LET q == IF p.content_[1] \in {"-", "+"}
             THEN [p EXCEPT !.content_ = remove_prefix(@, 1), !.cur_pos_ = @ + 1]
             ELSE p
        n == while_space_count(q.content_)
    IN  [q EXCEPT !.content_ = remove_prefix(@, n), !.cur_pos_ = @ + n]
parse_sign(p) ==
    LET q == IF p.content_[1] = "-"
             THEN [p EXCEPT !.content_ = remove_prefix(@, 1), !.cur_pos_ = @ + 1,
                            !.negative_ = TRUE]
             ELSE IF p.content_[1] = "+"
             THEN [p EXCEPT !.content_ = remove_prefix(@, 1), !.cur_pos_ = @ + 1]
             ELSE p
        n == while_space_count(q.content_)
    IN  [q EXCEPT !.content_ = remove_prefix(@, n), !.cur_pos_ = @ + n]

parse_base(p) ==
    IF p.content_[1] = "0"
    THEN LET q == [p EXCEPT !.content_ = remove_prefix(@, 1), !.cur_pos_ = @ + 1]
         IN  IF q.content_ = <<>> THEN q
             ELSE IF q.content_[1] \in {"b", "B"}
             THEN [q EXCEPT !.content_ = remove_prefix(@, 1), !.cur_pos_ = @ + 1,
                            !.base_ = 2]
             ELSE IF q.content_[1] \in {"x", "X"}
             THEN [q EXCEPT !.content_ = remove_prefix(@, 1), !.cur_pos_ = @ + 1,
                            !.base_ = 16]
             ELSE [q EXCEPT !.base_ = 8]
    ELSE p

is_separator(ch) == ch = "_"

DiagMessage(begin, end, message) ==
    [annotation_begin |-> begin, annotation_end |-> end, message |-> message]

\* check_separator: the loop from the 0-based index i.
RECURSIVE check_separator_from(_, _)
check_separator_from(p, i) ==
    IF i = Len(p.content_) THEN None
    ELSE IF ~is_separator(p.content_[i + 1]) THEN check_separator_from(p, i + 1)
    ELSE IF i = 0 \/ i = Len(p.content_) - 1
    THEN Some(DiagMessage(p.cur_pos_ + i, p.cur_pos_ + i + 1,
                          "because the digit separator cannot be here"))
    ELSE IF is_separator(p.content_[i])
    THEN Some(DiagMessage(p.cur_pos_ + i - 1, p.cur_pos_ + i + 1,
                          "because the digit separator cannot be used consecutively"))
    ELSE check_separator_from(p, i + 1)

\* check_separator as it would be without the test of consecutive separators.
check_separator_ends_only(p) ==
    IF p.content_ # <<>> /\ is_separator(p.content_[1])
    THEN Some(DiagMessage(p.cur_pos_, p.cur_pos_ + 1,
                          "because the digit separator cannot be here"))
    ELSE IF p.content_ # <<>> /\ is_separator(p.content_[Len(p.content_)])
    THEN Some(DiagMessage(p.cur_pos_ + Len(p.content_) - 1, p.cur_pos_ + Len(p.content_),
                          "because the digit separator cannot be here"))
    ELSE None
check_separator(p) == check_separator_from(p, 0)

MinOf(a, b) == IF b < a THEN b ELSE a

\* The condition of check_digit under which `ch` is reported; the limits
\* are the characters static_cast<char>('0' + base_) and so on.
DigitRejected(ch, base) ==
    LET c == Ord(ch)
    IN  /\ (c < Ord("0") \/ c > MinOf(Ord("9"), Ord("0") + base))
        /\ (c < Ord("a") \/ c > MinOf(Ord("f"), Ord("a") + base - 10))
        /\ (c < Ord("A") \/ c > MinOf(Ord("F"), Ord("A") + base - 10))

\* check_digit: the loop from the 0-based index i.
RECURSIVE check_digit_from(_, _)
check_digit_from(p, i) ==
    IF i = Len(p.content_) THEN None
    ELSE IF is_separator(p.content_[i + 1]) THEN check_digit_from(p, i + 1)
    ELSE IF DigitRejected(p.content_[i + 1], p.base_)
    THEN Some(DiagMessage(p.cur_pos_ + i, p.cur_pos_ + i + 1,
                          "because this is not a valid digit in base"))
    ELSE check_digit_from(p, i + 1)

check_digit(p) == check_digit_from(p, 0)

digit_value(ch) ==
    IF Ord("0") <= Ord(ch) /\ Ord(ch) <= Ord("9") THEN Ord(ch) - Ord("0")
    ELSE IF Ord("a") <= Ord(ch) /\ Ord(ch) <= Ord("f") THEN Ord(ch) - Ord("a") + 10
    ELSE Ord(ch) - Ord("A") + 10

U64Max == [i \in 1..4 |-> LimbMax]

get_max_value_ignoring_sign(p) ==
    IF p.bits_ = 64 THEN U64Max ELSE WordSub1(WordShl1(p.bits_))
get_max_value(p) ==
    IF p.negative_ THEN WordShl1(p.bits_ - 1)
    ELSE IF p.signedness_ THEN WordSub1(WordShl1(p.bits_ - 1))
    ELSE IF p.bits_ = 64 THEN U64Max
    ELSE WordSub1(WordShl1(p.bits_))

\* std::ranges::count(content_, '_')
count_separators(content) == Cardinality({ i \in DOMAIN content : content[i] = "_" })

always_fits_into_64bits(p) ==
    LET digits == Len(p.content_) - count_separators(p.content_)
    IN  CASE p.base_ = 2  -> digits <= 64
          [] p.base_ = 8  -> digits <= 64 \div 3
          [] p.base_ = 10 -> digits <= 19
          [] p.base_ = 16 -> digits <= 64 \div 4

\* The first loop of parse_integer; `loop` holds the 1-based index of the
\* next character and `result`.
RECURSIVE parse_integer_fast(_, _)
parse_integer_fast(p, loop) ==
    IF loop.i > Len(p.content_) THEN Some(loop.result)
    ELSE IF is_separator(p.content_[loop.i])
    THEN parse_integer_fast(p, [loop EXCEPT !.i = @ + 1])
    ELSE parse_integer_fast(p,
             [i |-> loop.i + 1,
              result |-> WordAdd(WordMul(loop.result, p.base_),
                                 digit_value(p.content_[loop.i]))])

\* The second loop of parse_integer, with its overflow checks.
RECURSIVE parse_integer_slow(_, _)
parse_integer_slow(p, loop) ==
    IF loop.i > Len(p.content_) THEN Some(loop.result)
    ELSE IF is_separator(p.content_[loop.i])
    THEN parse_integer_slow(p, [loop EXCEPT !.i = @ + 1])
    ELSE LET digit == digit_value(p.content_[loop.i])
             old_value == loop.result
             multiplied == WordMul(old_value, p.base_)
             result == WordAdd(multiplied, digit)
             overflow == \/ WordDiv(multiplied, p.base_) # old_value
                         \/ WordLess(result, U64(digit))
         IN  IF overflow THEN None
             ELSE parse_integer_slow(p, [i |-> loop.i + 1, result |-> result])

\* parse_integer as it would be if it returned the magnitude for a negative
\* literal too.
parse_integer_without_negation(p) ==
    LET max_value == get_max_value(p)
        result == IF always_fits_into_64bits(p)
                  THEN parse_integer_fast(p, [i |-> 1, result |-> U64(0)])
                  ELSE parse_integer_slow(p, [i |-> 1, result |-> U64(0)])
    IN  IF result = None THEN None
        ELSE IF WordLess(max_value, result[1]) THEN None
        ELSE Some(result[1])
parse_integer(p) ==
    LET max_value == get_max_value(p)
        result == IF always_fits_into_64bits(p)
                  THEN parse_integer_fast(p, [i |-> 1, result |-> U64(0)])
                  ELSE parse_integer_slow(p, [i |-> 1, result |-> U64(0)])
    IN  IF result = None THEN None
        ELSE IF WordLess(max_value, result[1]) THEN None
        ELSE Some(IF p.negative_ THEN WordNeg(result[1]) ELSE result[1])

\* Parser::get_integer_constant: the value, and the note of the diagnostic
\* it pushes when there is no value.
get_integer_constant(content, location_begin, bits, signedness) ==
    LET p == parse_base(parse_sign(IntegerParser(content, location_begin,
                                                 bits, signedness)))
        sep == check_separator(p)
        note == IF sep # None THEN sep ELSE check_digit(p)
        value == parse_integer(p)
    IN  IF note # None THEN [value |-> None, note |-> note]
        ELSE IF value # None THEN [value |-> value, note |-> None]
        ELSE [value |-> None,
              note |-> Some(DiagMessage(location_begin, location_begin + Len(content),
                                        "because the integer constant overflows"))]

-----------------------------------------------------------------------------
(* Token and Lexer: sassas/lexer/token.hpp, lexer.hpp, src/lexer/lexer.cpp   *)

\* A token is its kind and the range [begin, end) of source offsets of its
\* content; location() is begin.
Token(kind, begin, end) == [kind |-> kind, begin |-> begin, end |-> end]
content(source, token) == SubSeq(source, token.begin + 1, token.end)

\* The keyword table of adjust_identifer_kind (SASSAS_KEYWORD(name, spelling)),
\* with the spellings the parser's assertions and comparisons give.
keywords ==
    { [spelling |-> <<"A", "R", "C", "H", "I", "T", "E", "C", "T", "U", "R", "E">>,
       kind |-> "KeywordArchitecture"],
      [spelling |-> <<"C", "O", "N", "D", "I", "T", "I", "O", "N">>,
       kind |-> "KeywordCondition"],
      [spelling |-> <<"T", "Y", "P", "E", "S">>,
       kind |-> "KeywordTypes"],
      [spelling |-> <<"P", "A", "R", "A", "M", "E", "T", "E", "R", "S">>,
       kind |-> "KeywordParameters"],
      [spelling |-> <<"C", "O", "N", "S", "T", "A", "N", "T", "S">>,
       kind |-> "KeywordConstants"],
      [spelling |-> <<"S", "T", "R", "I", "N", "G", "_", "M", "A", "P">>,
       kind |-> "KeywordStringMap"],
      [spelling |-> <<"R", "E", "G", "I", "S", "T", "E", "R", "S">>,
       kind |-> "KeywordRegisters"],
      [spelling |-> <<"T", "A", "B", "L", "E", "S">>,
       kind |-> "KeywordTables"],
      [spelling |-> <<"O", "P", "E", "R", "A", "T", "I", "O", "N">>,
       kind |-> "KeywordOperation"],
      [spelling |-> <<"P", "R", "O", "P", "E", "R", "T", "I", "E", "S">>,
       kind |-> "KeywordProperties"],
      [spelling |-> <<"P", "R", "E", "D", "I", "C", "A", "T", "E", "S">>,
       kind |-> "KeywordPredicates"],
      [spelling |-> <<"F", "U", "N", "I", "T">>,
       kind |-> "KeywordFUnit"],
      [spelling |-> <<"E", "N", "C", "O", "D", "I", "N", "G">>,
       kind |-> "KeywordEncoding"] }

is_keyword(token) == token.kind \in { k.kind : k \in keywords }

\* Token::merge(other, new_kind)
merge(token, other, new_kind) ==
    Token(new_kind,
          IF token.begin < other.begin THEN token.begin ELSE other.begin,
          IF token.end > other.end THEN token.end ELSE other.end)

\* std::ranges::find_if_not / find_if from offset `from`: the offset of the
\* first character for which the test fails / holds, Len(source) if none.
find_if_not(source, from, Test(_)) ==
    CHOOSE i \in from..Len(source) :
        /\ i = Len(source) \/ ~Test(source[i + 1])
        /\ \A j \in from..(i - 1) : Test(source[j + 1])
find_if(source, from, Test(_)) ==
    CHOOSE i \in from..Len(source) :
        /\ i = Len(source) \/ Test(source[i + 1])
        /\ \A j \in from..(i - 1) : ~Test(source[j + 1])

IsWordChar(c) == isalnum(c) \/ c = "_"

adjust_identifer_kind(source, token) ==
    Let({ k \in keywords : k.spelling = content(source, token) }, LAMBDA found :
        IF found # {} THEN [token EXCEPT !.kind = (CHOOSE k \in found : TRUE).kind]
        ELSE token)

\* lex_string_literal: the offset after the string that starts at `begin`.
lex_string_literal(source, begin) ==
    Let(find_if(source, begin + 1, LAMBDA ch : ch = source[begin + 1] \/ ch = "\n"),
        LAMBDA current :
            IF current # Len(source) /\ source[current + 1] = source[begin + 1]
            THEN current + 1
            ELSE current)

\* The punctuators of one character, and those of two: `second` after `first`.
Punctuator1 ==
    [c \in {"[", "]", "(", ")", "{", "}", "+", "-", "*", "/", "%", "~", "!", "<",
            ">", "=", "&", "|", ".", "?", ":", ";", ",", "@", "$", "<grave>"} |->
        CASE c = "[" -> "PunctuatorLeftSquare"  [] c = "]" -> "PunctuatorRightSquare"
          [] c = "(" -> "PunctuatorLeftParen"   [] c = ")" -> "PunctuatorRightParen"
          [] c = "{" -> "PunctuatorLeftBrace"   [] c = "}" -> "PunctuatorRightBrace"
          [] c = "+" -> "PunctuatorPlus"        [] c = "-" -> "PunctuatorMinus"
          [] c = "*" -> "PunctuatorStar"        [] c = "/" -> "PunctuatorSlash"
          [] c = "%" -> "PunctuatorPercent"     [] c = "~" -> "PunctuatorTilde"
          [] c = "!" -> "PunctuatorExclaim"     [] c = "<" -> "PunctuatorLess"
          [] c = ">" -> "PunctuatorGreater"     [] c = "=" -> "PunctuatorEqual"
          [] c = "&" -> "PunctuatorAmp"         [] c = "|" -> "PunctuatorPipe"
          [] c = "." -> "PunctuatorDot"         [] c = "?" -> "PunctuatorQuestion"
          [] c = ":" -> "PunctuatorColon"       [] c = ";" -> "PunctuatorSemi"
          [] c = "," -> "PunctuatorComma"       [] c = "@" -> "PunctuatorAt"
          [] c = "$" -> "PunctuatorDollar"      [] c = "<grave>" -> "PunctuatorBackTick"]
Punctuator2 ==
    { [first |-> "-", second |-> ">", kind |-> "PunctuatorArrow"],
      [first |-> "!", second |-> "=", kind |-> "PunctuatorExclaimEqual"],
      [first |-> "<", second |-> "=", kind |-> "PunctuatorLessEqual"],
      [first |-> "<", second |-> "<", kind |-> "PunctuatorLessLess"],
      [first |-> ">", second |-> "=", kind |-> "PunctuatorGreaterEqual"],
      [first |-> ">", second |-> ">", kind |-> "PunctuatorGreaterGreater"],
      [first |-> "=", second |-> "=", kind |-> "PunctuatorEqualEqual"],
      [first |-> "&", second |-> "&", kind |-> "PunctuatorAmpAmp"],
      [first |-> "|", second |-> "|", kind |-> "PunctuatorPipePipe"] }

\* Lexer::next_token with current_ at offset `current`: the token formed;
\* current_ is left at its end.
next_token(source, current) ==
    Let(find_if_not(source, current, isspace), LAMBDA begin :
        IF begin = Len(source) THEN Token("End", begin, begin)
        ELSE Let(source[begin + 1], LAMBDA ch :
             Let({ q \in Punctuator2 : /\ q.first = ch
                                       /\ begin + 1 # Len(source)
                                       /\ source[begin + 2] = q.second }, LAMBDA two :
                 IF isdigit(ch)
                 THEN Token("Integer", begin, find_if_not(source, begin + 1, IsWordChar))
                 ELSE IF isalpha(ch) \/ ch = "_"
                 THEN adjust_identifer_kind(source,
                          Token("Identifier", begin,
                                find_if_not(source, begin + 1, IsWordChar)))
                 ELSE IF ch \in {"\"", "'"}
                 THEN Token("String", begin, lex_string_literal(source, begin))
                 ELSE IF two # {}
                 THEN Token((CHOOSE q \in two : TRUE).kind, begin, begin + 2)
                 ELSE IF ch \in DOMAIN Punctuator1
                 THEN Token(Punctuator1[ch], begin, begin + 1)
                 ELSE Token("Unknown", begin, begin + 1))))

-----------------------------------------------------------------------------
(* Parser: sassas/parser/parser.hpp, src/parser/parser.cpp.                  *)
(* The operators take the parser state `ps` (the lexer's current_ and        *)
(* cur_token_, and diagnostics_) and give the state they leave it in.        *)

\* lexer_.next_token() as it would be if the lexer began again after the end
\* of the source.
advance_restarting(source, ps) ==
    Let(next_token(source, IF ps.current_ = Len(source) THEN 0 ELSE ps.current_),
        LAMBDA token : [ps EXCEPT !.cur_token_ = token, !.current_ = token.end])
\* lexer_.next_token()
advance(source, ps) ==
    Let(next_token(source, ps.current_), LAMBDA token :
        [ps EXCEPT !.cur_token_ = token, !.current_ = token.end])

\* A diagnostic: its message, the primary annotation and the notes.
Diag(message, begin, end, notes) ==
    [message |-> message, begin |-> begin, end |-> end, notes |-> notes]
create_diag_at_token(token, message) == Diag(message, token.begin, token.end, <<>>)
push_diag(ps, diag) == [ps EXCEPT !.diagnostics_ = Append(@, diag)]

\* expect_token as it would be if it reported the mismatch without a
\* diagnostic.
expect_token_silent(ps, token, kinds) ==
    [ps |-> ps, mismatch |-> token.kind \notin kinds]
\* expect_token(token, kinds...): whether the kind of `token` is none of
\* `kinds`, with the diagnostic it pushes then.
expect_token(ps, token, kinds) ==
    IF token.kind \notin kinds
    THEN [ps |-> push_diag(ps, create_diag_at_token(token, "Unexpected token")),
          mismatch |-> TRUE]
    ELSE [ps |-> ps, mismatch |-> FALSE]
expect_current_token(ps, kinds) == expect_token(ps, ps.cur_token_, kinds)
expect_next_token(source, ps, kinds) ==
    Let(advance(source, ps), LAMBDA next : expect_token(next, next.cur_token_, kinds))

get_string_literal(source, ps, token) ==
    Let(content(source, token), LAMBDA text :
        IF Len(text) > 1 /\ text[1] = text[Len(text)]
        THEN [ps |-> ps, value |-> Some(SubSeq(text, 2, Len(text) - 1))]
        ELSE [ps |-> push_diag(ps, create_diag_at_token(token, "Invalid string literal")),
              value |-> None])
expect_string_literal(source, ps, token) ==
    IF token.kind # "String"
    THEN [ps |-> expect_token(ps, token, {"String"}).ps, value |-> None]
    ELSE get_string_literal(source, ps, token)

get_identifier_or_string(source, ps, token) ==
    IF token.kind = "Identifier"
    THEN [ps |-> ps, value |-> Some(content(source, token))]
    ELSE get_string_literal(source, ps, token)
expect_identifier_or_string(source, ps, token) ==
    IF token.kind \notin {"Identifier", "String"}
    THEN [ps |-> expect_token(ps, token, {"Identifier", "String"}).ps, value |-> None]
    ELSE get_identifier_or_string(source, ps, token)

\* expect_integer_constant; get_integer_constant pushes "Invalid integer
\* constant" with its note when it gives no value.
expect_integer_constant(source, ps, token, bits, signedness) ==
    IF token.kind # "Integer"
    THEN [ps |-> expect_token(ps, token, {"Integer"}).ps, value |-> None]
    ELSE Let(get_integer_constant(content(source, token), token.begin, bits, signedness),
             LAMBDA r :
                 IF r.value # None THEN [ps |-> ps, value |-> r.value]
                 ELSE [ps |-> push_diag(ps, Diag("Invalid integer constant",
                                                 token.begin, token.end, r.note)),
                       value |-> None])

\* static_cast<unsigned>/<int> of a std::uint64_t: its low 32 bits.
Low32(w) == SubSeq(w, 1, 2)

-----------------------------------------------------------------------------
(* ISAParser: sassas/parser/isa_parser.hpp, src/parser/isa_parser.cpp.       *)
(* The routines without a loop, as operators on the parser state.            *)

\* RangeExpr, the std::views::iota(begin, end + 1) of unsigned values with
\* its token range; empty_range() is RangeExpr(1, 0).
RangeExpr(location_begin, location_end, begin, end) ==
    [location_begin |-> location_begin, location_end |-> location_end,
     first |-> begin, bound |-> WordAdd(end, 1)]
empty_range == RangeExpr(0, 0, U32(1), U32(0))
range_empty(range) == range.first = range.bound
range_size(range) == WordMinus(range.bound, range.first)
range_at(range, i) == WordAdd(range.first, i)

RegisterName(location_begin, location_end, prefix, range) ==
    [location_begin |-> location_begin, location_end |-> location_end,
     prefix |-> prefix, range |-> range]
has_associated_range(names) == ~range_empty(names.range)
name_count(names) ==
    IF has_associated_range(names) THEN range_size(names.range) ELSE U32(1)

parse_range_expr(source, ps) ==
    Let(advance(source, ps), LAMBDA first :
    Let(expect_integer_constant(source, first, first.cur_token_, 32, FALSE), LAMBDA begin :
    Let(expect_next_token(source, begin.ps, {"PunctuatorDotDot"}), LAMBDA dots :
    Let(advance(source, dots.ps), LAMBDA last :
    Let(expect_integer_constant(source, last, last.cur_token_, 32, FALSE), LAMBDA end :
    Let(expect_next_token(source, end.ps, {"PunctuatorRightParen"}), LAMBDA paren :
        IF begin.value = None THEN [ps |-> begin.ps, value |-> None]
        ELSE IF dots.mismatch THEN [ps |-> dots.ps, value |-> None]
        ELSE IF end.value = None THEN [ps |-> end.ps, value |-> None]
        ELSE IF paren.mismatch THEN [ps |-> paren.ps, value |-> None]
        ELSE IF WordLess(end.value[1], begin.value[1])
        THEN [ps |-> push_diag(advance(source, paren.ps),
                        Diag("The start of the range is greater than the end",
                             ps.cur_token_.begin, paren.ps.cur_token_.end, <<>>)),
              value |-> None]
        ELSE [ps |-> advance(source, paren.ps),
              value |-> Some(RangeExpr(ps.cur_token_.begin, paren.ps.cur_token_.end,
                                       Low32(begin.value[1]), Low32(end.value[1])))]))))))

parse_register_name(source, ps) ==
    Let(get_identifier_or_string(source, ps, ps.cur_token_), LAMBDA name :
    Let(advance(source, name.ps), LAMBDA next :
        IF name.value = None THEN [ps |-> name.ps, value |-> None]
        ELSE IF next.cur_token_.kind = "PunctuatorLeftParen"
        THEN Let(parse_range_expr(source, next), LAMBDA range :
                 IF range.value = None THEN [ps |-> range.ps, value |-> None]
                 ELSE [ps |-> range.ps,
                       value |-> Some(RegisterName(ps.cur_token_.begin,
                                                   range.value[1].location_end,
                                                   name.value[1], range.value[1]))])
        ELSE IF next.cur_token_.kind = "PunctuatorStar"
        THEN Let(advance(source, next), LAMBDA star :
                 [ps |-> star,
                  value |-> Some(RegisterName(ps.cur_token_.begin, star.cur_token_.end,
                                              name.value[1], empty_range))])
        ELSE [ps |-> next,
              value |-> Some(RegisterName(ps.cur_token_.begin, next.cur_token_.end,
                                          name.value[1], empty_range))]))

parse_register_value(source, ps) ==
    IF ps.cur_token_.kind \notin {"PunctuatorLeftParen", "Integer"}
    THEN [ps |-> expect_current_token(ps, {"PunctuatorLeftParen", "Integer"}).ps,
          value |-> None]
    ELSE IF ps.cur_token_.kind = "PunctuatorLeftParen"
    THEN parse_range_expr(source, ps)
    ELSE Let(expect_integer_constant(source, ps, ps.cur_token_, 32, FALSE), LAMBDA value :
             IF value.value = None THEN [ps |-> value.ps, value |-> None]
             ELSE [ps |-> advance(source, value.ps),
                   value |-> Some(RangeExpr(ps.cur_token_.begin, ps.cur_token_.end,
                                            Low32(value.value[1]),
                                            Low32(value.value[1])))])

\* fmt::format("{}", value) of an unsigned value: its decimal digits.
RECURSIVE ToDecimal(_)
ToDecimal(value) ==
    Let(WordDiv(value, 10), LAMBDA quotient :
        (IF quotient = U32(0) THEN <<>> ELSE ToDecimal(quotient))
        \o <<DigitSeq[((value[1] - WordMul(quotient, 10)[1]) % LimbBase) + 1]>>)

\* The loops of parse_register_list over a range of names, from index i:
\* `prefix{range[i]}` with the value (*values)[i], or with the default value.
RECURSIVE append_range_with_values(_, _, _, _)
append_range_with_values(result, names, values, i) ==
    IF U32(i) = name_count(names) THEN result
    ELSE append_range_with_values(
             append_register(result,
                             names.prefix \o ToDecimal(range_at(names.range, i)),
                             range_at(values, i)),
             names, values, i + 1)
RECURSIVE append_range(_, _, _)
append_range(result, names, i) ==
    IF U32(i) = name_count(names) THEN result
    ELSE append_range(
             append_register(result,
                             names.prefix \o ToDecimal(range_at(names.range, i)),
                             default_value(result)),
             names, i + 1)

\* Lines 583-588 of parse_register_list: the `,` after an entry of the list.
list_separator(source, ps, result) ==
    IF ps.cur_token_.kind = "PunctuatorComma"
    THEN [ps |-> advance(source, ps), ok |-> TRUE, more |-> TRUE, result |-> result]
    ELSE [ps |-> ps, ok |-> TRUE, more |-> FALSE, result |-> result]

\* One iteration of the loop of parse_register_list: `ok` is FALSE when it
\* returns std::nullopt, `more` is TRUE when the loop goes round again.
register_list_step(source, ps, result) ==
    Let(parse_register_name(source, ps), LAMBDA names :
        IF names.value = None
        THEN [ps |-> names.ps, ok |-> FALSE, more |-> FALSE, result |-> result]
        ELSE IF names.ps.cur_token_.kind = "PunctuatorEqual"
        THEN Let(parse_register_value(source, advance(source, names.ps)), LAMBDA values :
                 IF values.value = None
                 THEN [ps |-> values.ps, ok |-> FALSE, more |-> FALSE, result |-> result]
                 ELSE IF name_count(names.value[1]) # range_size(values.value[1])
                 THEN [ps |-> push_diag(values.ps,
                          Diag("The number of register names and initial values do not match",
                               names.value[1].location_begin,
                               names.value[1].location_end, <<>>)),
                       ok |-> FALSE, more |-> FALSE, result |-> result]
                 ELSE list_separator(source, values.ps,
                          IF has_associated_range(names.value[1])
                          THEN append_range_with_values(result, names.value[1],
                                                        values.value[1], 0)
                          ELSE append_register(result, names.value[1].prefix,
                                               values.value[1].first)))
        ELSE list_separator(source, names.ps,
                 IF has_associated_range(names.value[1])
                 THEN append_range(result, names.value[1], 0)
                 ELSE append_register(result, names.value[1].prefix,
                                      default_value(result))))

\* One iteration of the loop of parse_register_category_concatenation.
concatenation_step(source, ps, register_table, result) ==
    Let(expect_next_token(source, ps, {"Identifier"}), LAMBDA expected :
    Let(content(source, expected.ps.cur_token_), LAMBDA category_name :
        IF expected.mismatch
        THEN [ps |-> expected.ps, ok |-> FALSE, more |-> FALSE, result |-> result]
        ELSE IF category_name \notin DOMAIN register_table
        THEN [ps |-> push_diag(expected.ps,
                        create_diag_at_token(expected.ps.cur_token_,
                                             "Unknown register category")),
              ok |-> FALSE, more |-> FALSE, result |-> result]
        ELSE Let(advance(source, expected.ps), LAMBDA next :
                 [ps |-> next, ok |-> TRUE,
                  more |-> next.cur_token_.kind = "PunctuatorPlus",
                  result |-> concat_with(result, register_table[category_name])])))

\* Lines 703-733 of resolve_table_element: `category @ name`, with the name
\* at the current token; `category_token` is the token of the category.
register_element(source, ps, register_table, category_token, register_category) ==
    Let(expect_identifier_or_string(source, ps, ps.cur_token_), LAMBDA register_name :
        IF register_name.value = None
        THEN [ps |-> advance(source, register_name.ps), value |-> None]
        ELSE IF register_category \notin DOMAIN register_table
        THEN [ps |-> advance(source,
                         push_diag(register_name.ps,
                                   create_diag_at_token(category_token,
                                                        "Unknown register category"))),
              value |-> None]
        ELSE Let(find(register_table[register_category], register_name.value[1]),
                 LAMBDA found :
                     IF found = None
                     THEN [ps |-> advance(source,
                                      push_diag(register_name.ps,
                                          create_diag_at_token(ps.cur_token_,
                                                               "Unknown register name"))),
                           value |-> None]
                     ELSE [ps |-> advance(source, register_name.ps), value |-> found]))

\* resolve_table_element; the ConsumeTokenRAII object advances the lexer on
\* every return after the check of the current token.
resolve_table_element(source, ps, register_table) ==
    IF ps.cur_token_.kind \notin {"Integer", "Identifier", "String", "PunctuatorMinus"}
    THEN [ps |-> expect_current_token(ps, {"Integer", "Identifier", "String",
                                           "PunctuatorMinus"}).ps,
          value |-> None]
    ELSE IF ps.cur_token_.kind = "Integer"
    THEN Let(expect_integer_constant(source, ps, ps.cur_token_, 32, FALSE), LAMBDA integer :
             [ps |-> advance(source, integer.ps),
              value |-> IF integer.value = None THEN None
                        ELSE Some(Low32(integer.value[1]))])
    ELSE IF ps.cur_token_.kind = "PunctuatorMinus"
    THEN [ps |-> advance(source, ps), value |-> Some(MATCH_ANY)]
    ELSE Let(get_identifier_or_string(source, ps, ps.cur_token_), LAMBDA register_category :
         Let(advance(source, register_category.ps), LAMBDA next :
             IF register_category.value = None THEN [ps |-> next, value |-> None]
             ELSE IF next.cur_token_.kind = "PunctuatorAt"
             THEN register_element(source, advance(source, next), register_table,
                                   ps.cur_token_, register_category.value[1])
             ELSE IF Len(register_category.value[1]) # 1
             THEN [ps |-> advance(source,
                              push_diag(next, create_diag_at_token(ps.cur_token_,
                                                                   "Invalid table element"))),
                   value |-> None]
             ELSE [ps |-> advance(source, next),
                   value |-> Some(U32(Ord(register_category.value[1][1])))]))

\* BitMask(str_description): the loop from offset `iter`; a run of `X` from
\* offset a to offset b of n characters is the BitRange(n - b, b - a).
RECURSIVE BitMaskFrom(_, _)
BitMaskFrom(str, iter) ==
    Let(find_if(str, iter, LAMBDA c : c = "X"), LAMBDA one :
    Let(find_if(str, one, LAMBDA c : c = "."), LAMBDA zero :
        IF one = Len(str) THEN <<>>
        ELSE <<[start |-> Len(str) - zero, size |-> zero - one]>>
             \o BitMaskFrom(str, zero)))
\* BitMask as it would be with the left end of the description as bit 0.
BitMask_from_left(str_description) ==
    Let(BitMaskFrom(str_description, 0), LAMBDA ranges :
        [i \in DOMAIN ranges |->
            [start |-> Len(str_description) - ranges[i].start - ranges[i].size,
             size |-> ranges[i].size]])
BitMask(str_description) == BitMaskFrom(str_description, 0)

\* parse_bitmask as it would be without the tests of the length and of the
\* characters of the string.
parse_bitmask_unchecked(source, ps, encoding_width) ==
    Let(get_string_literal(source, ps, ps.cur_token_), LAMBDA bitmask_str :
        IF bitmask_str.value = None THEN [ps |-> bitmask_str.ps, value |-> None]
        ELSE [ps |-> bitmask_str.ps, value |-> Some(BitMask(bitmask_str.value[1]))])
parse_bitmask(source, ps, encoding_width) ==
    Let(get_string_literal(source, ps, ps.cur_token_), LAMBDA bitmask_str :
        IF bitmask_str.value = None THEN [ps |-> bitmask_str.ps, value |-> None]
        ELSE IF U64(Len(bitmask_str.value[1])) # encoding_width \o U32(0)
        THEN [ps |-> push_diag(bitmask_str.ps,
                        create_diag_at_token(ps.cur_token_,
                                             "The bitmask must be N bits long")),
              value |-> None]
        ELSE Let(find_if(bitmask_str.value[1], 0, LAMBDA ch : ch # "." /\ ch # "X"),
                 LAMBDA invalid_char :
                     IF invalid_char # Len(bitmask_str.value[1])
                     THEN [ps |-> push_diag(bitmask_str.ps,
                                     Diag("Invalid character in bitmask",
                                          ps.cur_token_.begin + 1 + invalid_char,
                                          ps.cur_token_.begin + 1 + invalid_char + 1,
                                          <<"Only X and . are allowed">>)),
                           value |-> None]
                     ELSE [ps |-> bitmask_str.ps,
                           value |-> Some(BitMask(bitmask_str.value[1]))]))

\* parse_encoding_width up to its last statement: when it gives no value the
\* routine goes on with recover_until(Token::PunctuatorSemi, false).
encoding_width_value(source, ps) ==
    Let(expect_integer_constant(source, ps, ps.cur_token_, 32, FALSE), LAMBDA val :
        IF val.value = None THEN [ps |-> val.ps, value |-> None]
        ELSE IF Low32(val.value[1]) = U32(0) \/ WordLess(U32(128), Low32(val.value[1]))
        THEN [ps |-> push_diag(val.ps,
                        create_diag_at_token(ps.cur_token_, "Invalid encoding width")),
              value |-> None]
        ELSE Let(expect_next_token(source, val.ps, {"PunctuatorSemi"}), LAMBDA semi :
                 [ps |-> semi.ps,
                  value |-> IF semi.mismatch THEN None
                            ELSE Some(Low32(val.value[1]))]))

\* ConditionType::from_string: the kinds of KIND_STR_MAP.
condition_kinds == { <<"E","R","R","O","R">>, <<"W","A","R","N","I","N","G">>,
                     <<"I","N","F","O">> }

-----------------------------------------------------------------------------
(* ISAParser::parse as a state machine: one step for each iteration of each *)
(* loop of src/parser/isa_parser.cpp and of Lexer::lex_until.               *)

\* The source texts: the lexemes of up to MaxFrags fragments, one space
\* between two lexemes.
Spelling ==
       "ARCHITECTURE" :> <<"A", "R", "C", "H", "I", "T", "E", "C", "T", "U", "R", "E">>
    @@ "CONDITION" :> <<"C", "O", "N", "D", "I", "T", "I", "O", "N">>
    @@ "TYPES" :> <<"T", "Y", "P", "E", "S">>
    @@ "PARAMETERS" :> <<"P", "A", "R", "A", "M", "E", "T", "E", "R", "S">>
    @@ "CONSTANTS" :> <<"C", "O", "N", "S", "T", "A", "N", "T", "S">>
    @@ "STRING_MAP" :> <<"S", "T", "R", "I", "N", "G", "_", "M", "A", "P">>
    @@ "REGISTERS" :> <<"R", "E", "G", "I", "S", "T", "E", "R", "S">>
    @@ "TABLES" :> <<"T", "A", "B", "L", "E", "S">>
    @@ "OPERATION" :> <<"O", "P", "E", "R", "A", "T", "I", "O", "N">>
    @@ "PROPERTIES" :> <<"P", "R", "O", "P", "E", "R", "T", "I", "E", "S">>
    @@ "PREDICATES" :> <<"P", "R", "E", "D", "I", "C", "A", "T", "E", "S">>
    @@ "FUNIT" :> <<"F", "U", "N", "I", "T">>
    @@ "ENCODING" :> <<"E", "N", "C", "O", "D", "I", "N", "G">>
    @@ "WIDTH" :> <<"W", "I", "D", "T", "H">>
    @@ "ERROR" :> <<"E", "R", "R", "O", "R">>
    @@ "A" :> <<"A">>
    @@ "B" :> <<"B">>
    @@ "C" :> <<"C">>
    @@ "D" :> <<"D">>
    @@ "U" :> <<"U">>
    @@ "T" :> <<"T">>
    @@ "uC" :> <<"u", "C">>
    @@ "x" :> <<"x">>
    @@ "0" :> <<"0">>
    @@ "1" :> <<"1">>
    @@ "2" :> <<"2">>
    @@ "4" :> <<"4">>
    @@ "5" :> <<"5">>
    @@ "32" :> <<"3", "2">>
    @@ "4294967295" :> <<"4", "2", "9", "4", "9", "6", "7", "2", "9", "5">>
    @@ "'sm'" :> <<"'", "s", "m", "'">>
    @@ "'XX..'" :> <<"'", "X", "X", ".", ".", "'">>
    @@ "'X..X'" :> <<"'", "X", ".", ".", "X", "'">>
    @@ "'X'" :> <<"'", "X", "'">>
    @@ "'A'" :> <<"'", "A", "'">>
    @@ "'ab'" :> <<"'", "a", "b", "'">>
    @@ "3" :> <<"3">>
    @@ "'ab" :> <<"'", "a", "b">>
    @@ "'XxXx'" :> <<"'", "X", "x", "X", "x", "'">>
    @@ ";" :> <<";">>
    @@ "=" :> <<"=">>
    @@ "->" :> <<"-", ">">>
    @@ "," :> <<",">>
    @@ "+" :> <<"+">>
    @@ "@" :> <<"@">>
    @@ "(" :> <<"(">>
    @@ ")" :> <<")">>
    @@ ".." :> <<".", ".">>
    @@ "-" :> <<"-">>
    @@ ":" :> <<":">>

RECURSIVE Text(_)
Text(lexemes) ==
    IF lexemes = <<>> THEN <<>>
    ELSE IF Len(lexemes) = 1 THEN Spelling[lexemes[1]]
    ELSE Spelling[lexemes[1]] \o <<" ">> \o Text(Tail(lexemes))

RECURSIVE Flatten(_)
Flatten(seqs) == IF seqs = <<>> THEN <<>> ELSE seqs[1] \o Flatten(Tail(seqs))

\* The state of the parser as one record, and the step that leaves it as `m`.
Machine ==
    [current_ |-> current_, cur_token_ |-> cur_token_, diagnostics_ |-> diagnostics_,
     pc |-> pc, has_errors |-> has_errors, result |-> parse_result, frame |-> frame,
     until |-> until, outcome |-> outcome, returns |-> returns, stop |-> stop,
     recover_from |-> recover_from,
     content_ |-> content_, key_size_ |-> key_size_, t_rows |-> t_rows]
Becomes(m) ==
    /\ current_' = m.current_
    /\ cur_token_' = m.cur_token_
    /\ diagnostics_' = m.diagnostics_
    /\ pc' = m.pc
    /\ has_errors' = m.has_errors
    /\ parse_result' = m.result
    /\ frame' = m.frame
    /\ until' = m.until
    /\ outcome' = m.outcome
    /\ returns' = m.returns
    /\ stop' = m.stop
    /\ recover_from' = m.recover_from
    /\ content_' = m.content_
    /\ key_size_' = m.key_size_
    /\ t_rows' = m.t_rows
    /\ UNCHANGED <<source_, t_query, t_result, regVars, intVars, maskVars, rangeVars>>

\* The lexer and the diagnostics of `m` as the operators of Parser take them.
PS(m) == [current_ |-> m.current_, cur_token_ |-> m.cur_token_,
          diagnostics_ |-> m.diagnostics_]
WithPS(m, ps) == [m EXCEPT !.current_ = ps.current_, !.cur_token_ = ps.cur_token_,
                           !.diagnostics_ = ps.diagnostics_]

NoFrame == [section |-> "none"]
NoUntil == [cond |-> "none"]
EmptyMap == <<>>
\* std::unordered_map::try_emplace
try_emplace(map, key, value) == IF key \in DOMAIN map THEN map ELSE map @@ (key :> value)

\* ISA result; the encoding width of its FunctionalUnit is not initialized.
Uninitialized == "uninitialized"
DefaultFunctionalUnit ==
    [name |-> <<>>, encoding_width |-> Uninitialized, bitmasks |-> EmptyMap]
DefaultISA ==
    [architecture |-> [name |-> <<>>, details |-> <<>>],
     condition_types |-> <<>>,
     parameters |-> EmptyMap, constants |-> EmptyMap, string_map |-> EmptyMap,
     registers |-> EmptyMap, tables |-> EmptyMap,
     operation_properties |-> <<>>, operation_predicates |-> <<>>,
     functional_unit |-> DefaultFunctionalUnit]

\* return std::nullopt / return result of parse()
Nullopt == None
\* parse() as it would return without the test of has_errors.
ParseReturns_without_flag(m, how) ==
    [m EXCEPT !.pc = "done", !.stop = how,
              !.outcome = IF how = "NonKeyword" THEN Nullopt ELSE Some(m.result)]
ParseReturns(m, how) ==
    [m EXCEPT !.pc = "done", !.stop = how,
              !.outcome = IF how = "NonKeyword" \/ m.has_errors THEN Nullopt
                          ELSE Some(m.result)]

\* PARSE_SECTION as it would be if it merged the maps of a repeated section
\* into the ones the model holds.
SectionSucceeds_merging(m, field, value) ==
    [m EXCEPT !.result[field] =
                  IF field \in {"parameters", "constants", "string_map", "registers", "tables"}
                  THEN value @@ @
                  ELSE value,
              !.pc = "driver", !.frame = NoFrame,
              !.returns = Append(@, [section |-> m.frame.section, success |-> TRUE,
                                     token |-> m.cur_token_])]
\* A section routine returns a value: PARSE_SECTION stores it and continues.
SectionSucceeds(m, field, value) ==
    [m EXCEPT !.result[field] = value, !.pc = "driver", !.frame = NoFrame,
              !.returns = Append(@, [section |-> m.frame.section, success |-> TRUE,
                                     token |-> m.cur_token_])]
\* The recovery as it would be if it consumed the keyword it stops at.
SectionFails_consuming(m) ==
    [m EXCEPT !.has_errors = TRUE, !.pc = "lex_until", !.frame = NoFrame,
              !.until = [cond |-> "is_keyword", consume |-> TRUE, recover |-> FALSE,
                         ret |-> "driver", merged |-> m.cur_token_],
              !.recover_from = Some([token |-> m.cur_token_,
                                      diagnostics |-> Len(m.diagnostics_)]),
              !.returns = Append(@, [section |-> m.frame.section, success |-> FALSE,
                                     token |-> m.cur_token_])]
\* A section routine returns std::nullopt, or the check of the second keyword
\* fails: `has_errors = true; lexer_.lex_until(&Token::is_keyword, false);`
SectionFails(m) ==
    [m EXCEPT !.has_errors = TRUE, !.pc = "lex_until", !.frame = NoFrame,
              !.until = [cond |-> "is_keyword", consume |-> FALSE, recover |-> FALSE,
                         ret |-> "driver", merged |-> m.cur_token_],
              !.recover_from = Some([token |-> m.cur_token_,
                                      diagnostics |-> Len(m.diagnostics_)]),
              !.returns = Append(@, [section |-> m.frame.section, success |-> FALSE,
                                     token |-> m.cur_token_])]
\* recover_until(kind, consume), or the lex_until of a section routine, which
\* goes on at `ret` when it returns.
LexUntil(m, cond, consume, recover, merged, ret) ==
    [m EXCEPT !.pc = "lex_until",
              !.until = [cond |-> cond, consume |-> consume, recover |-> recover,
                         ret |-> ret, merged |-> merged]]

ParseIdle ==
    /\ source_ = <<>> /\ current_ = 0 /\ cur_token_ = Token("Unknown", 0, 0)
    /\ diagnostics_ = <<>> /\ pc = "idle" /\ has_errors = FALSE /\ parse_result = DefaultISA
    /\ frame = NoFrame /\ until = NoUntil /\ outcome = None /\ returns = <<>>
    /\ stop = "none" /\ recover_from = None

\* parse(), lines 30-35: the first token.
Start ==
    /\ pc = "parse"
    /\ Becomes([WithPS(Machine, advance(source_, PS(Machine))) EXCEPT !.pc = "driver"])

\* The keywords the switch of parse() has a case for.
Dispatched ==
    {"KeywordArchitecture", "KeywordParameters", "KeywordConstants", "KeywordStringMap",
     "KeywordRegisters", "KeywordFUnit", "KeywordCondition", "KeywordTables",
     "KeywordOperation"}

\* The loop of parse() is left at the end of the input ...
DriverEnd ==
    /\ pc = "driver"
    /\ cur_token_.kind = "End"
    /\ Becomes(ParseReturns(Machine, "End"))
\* The stop at a token that is no keyword as it would be without diagnostic.
DriverNonKeyword_silent ==
    /\ pc = "driver"
    /\ cur_token_.kind # "End"
    /\ ~is_keyword(cur_token_)
    /\ Becomes(ParseReturns(Machine, "NonKeyword"))
\* ... at a token that is no keyword ...
DriverNonKeyword ==
    /\ pc = "driver"
    /\ cur_token_.kind # "End"
    /\ ~is_keyword(cur_token_)
    /\ Becomes(ParseReturns(
           WithPS(Machine, push_diag(PS(Machine),
                                     create_diag_at_token(cur_token_, "Unexpected token"))),
           "NonKeyword"))
\* ... or at the default label of the switch.
DriverDefault ==
    /\ pc = "driver"
    /\ is_keyword(cur_token_)
    /\ cur_token_.kind \notin Dispatched
    /\ Becomes(ParseReturns(Machine, "NoDispatch"))

\* Lexer::lex_until: one iteration of its loop. The conditions are
\* Token::is_keyword, token.is(kind), and the lambdas of parse_architecture
\* and parse_functional_unit, which merge the tokens they pass over.
Cond(cond, token) ==
    CASE cond = "is_keyword" -> is_keyword(token)
      [] cond = "PunctuatorSemi" -> token.kind = "PunctuatorSemi"
      [] cond = "item_value" -> token.kind = "PunctuatorSemi"
      [] cond = "item_name" -> token.kind # "Identifier"
Merged(cond, merged, token) ==
    CASE cond = "item_value" -> merge(merged, token, "String")
      [] cond = "item_name" -> merge(merged, token, "Identifier")
      [] OTHER -> merged
LexUntilStep ==
    /\ pc = "lex_until"
    /\ cur_token_.kind # "End"
    /\ ~Cond(until.cond, cur_token_)
    /\ Becomes([WithPS(Machine, advance(source_, PS(Machine)))
                  EXCEPT !.until.merged = Merged(until.cond, @, cur_token_)])
\* lex_until returns, to recover_until when `recover` is set, which pushes a
\* diagnostic when the token was not found.
LexUntilReturn ==
    /\ pc = "lex_until"
    /\ cur_token_.kind = "End" \/ Cond(until.cond, cur_token_)
    /\ Let(cur_token_.kind # "End", LAMBDA match :
       Let(IF match /\ until.consume THEN advance(source_, PS(Machine)) ELSE PS(Machine),
           LAMBDA consumed :
               Becomes([WithPS(Machine,
                               IF until.recover /\ ~match
                               THEN push_diag(consumed,
                                        create_diag_at_token(consumed.cur_token_, "Expected"))
                               ELSE consumed)
                          EXCEPT !.pc = until.ret,
                                 !.until = [cond |-> "returned", match |-> match,
                                            merged |-> until.merged]])))

\* parse_architecture, lines 144-158: the architecture name.
EnterArchitecture ==
    /\ pc = "driver"
    /\ cur_token_.kind = "KeywordArchitecture"
    /\ Let(advance(source_, PS(Machine)), LAMBDA next :
       Let(expect_string_literal(source_, next, next.cur_token_), LAMBDA arch_name :
           Becomes([WithPS(Machine, arch_name.ps)
                      EXCEPT !.pc = "architecture",
                             !.frame = [section |-> "architecture",
                                        has_errors |-> arch_name.value = None,
                                        result |-> [name |-> IF arch_name.value = None
                                                             THEN <<>>
                                                             ELSE arch_name.value[1],
                                                    details |-> <<>>]]])))
\* One iteration of its loop, up to the call of lex_until.
ArchitectureItem ==
    /\ pc = "architecture"
    /\ Let(advance(source_, PS(Machine)), LAMBDA name :
       /\ name.cur_token_.kind = "Identifier"
       /\ Let(advance(source_, name), LAMBDA value :
              IF value.cur_token_.kind = "PunctuatorSemi"
              THEN Becomes([WithPS(Machine,
                                   push_diag(value, create_diag_at_token(value.cur_token_,
                                                                         "Expected content")))
                              EXCEPT !.frame.has_errors = TRUE])
              ELSE Becomes(LexUntil([WithPS(Machine, value)
                                       EXCEPT !.frame = frame @@
                                           [item_name |-> content(source_, name.cur_token_)]],
                                    "item_value", FALSE, FALSE, value.cur_token_,
                                    "architecture_value"))))
\* The rest of the iteration, after lex_until.
ArchitectureValue ==
    /\ pc = "architecture_value"
    /\ Let([section |-> "architecture", has_errors |-> frame.has_errors,
            result |-> frame.result], LAMBDA base :
           IF ~until.match
           THEN Becomes([WithPS(Machine,
                                push_diag(PS(Machine),
                                          create_diag_at_token(until.merged, "Expected ';'")))
                           EXCEPT !.pc = "architecture",
                                  !.frame = [base EXCEPT !.has_errors = TRUE]])
           ELSE Becomes([Machine
                           EXCEPT !.pc = "architecture",
                                  !.frame = [base EXCEPT !.result.details =
                                      Append(@, [name |-> frame.item_name,
                                                 value |-> content(source_, until.merged)])]]))
\* The return of a section routine as it would be if the loop had tested
\* the current token in place of the next one.
SectionReturns_at_current(next, field, value) ==
    IF frame.has_errors
    THEN Becomes(SectionFails(Machine))
    ELSE Becomes(SectionSucceeds(Machine, field, value))
\* A section routine returns at the token `next` when its loop ends: `return
\* std::nullopt` with errors, and `return result` without.
SectionReturns(next, field, value) ==
    IF frame.has_errors
    THEN Becomes(SectionFails(WithPS(Machine, next)))
    ELSE Becomes(SectionSucceeds(WithPS(Machine, next), field, value))

\* The loop ends: lines 209-214.
ArchitectureReturn ==
    /\ pc = "architecture"
    /\ Let(advance(source_, PS(Machine)), LAMBDA next :
       /\ next.cur_token_.kind # "Identifier"
       /\ SectionReturns(next, "architecture", frame.result))

\* case Token::KeywordCondition and parse_condition_types, lines 71-78, 217-224.
EnterCondition ==
    /\ pc = "driver"
    /\ cur_token_.kind = "KeywordCondition"
    /\ Let(expect_next_token(source_, PS(Machine), {"KeywordTypes"}), LAMBDA types :
       Let([WithPS(Machine, types.ps)
              EXCEPT !.frame = [section |-> "condition_types", has_errors |-> FALSE,
                                results |-> <<>>]], LAMBDA entered :
           IF types.mismatch THEN Becomes(SectionFails(entered))
           ELSE Becomes([entered EXCEPT !.pc = "condition_types"])))
\* One iteration of the loop of parse_condition_types.
ConditionType ==
    /\ pc = "condition_types"
    /\ Let(advance(source_, PS(Machine)), LAMBDA next :
       /\ next.cur_token_.kind = "Identifier"
       /\ Let(expect_next_token(source_, next, {"PunctuatorColon"}), LAMBDA colon :
          Let(expect_next_token(source_, colon.ps, {"Identifier"}), LAMBDA ident :
          Let(content(source_, ident.ps.cur_token_), LAMBDA kind :
              IF colon.mismatch THEN Becomes(SectionFails(WithPS(Machine, colon.ps)))
              ELSE IF ident.mismatch THEN Becomes(SectionFails(WithPS(Machine, ident.ps)))
              ELSE IF kind \in condition_kinds
              THEN Becomes([WithPS(Machine, ident.ps)
                              EXCEPT !.frame.results =
                                  Append(@, [kind |-> kind,
                                             name |-> content(source_, next.cur_token_)])])
              ELSE Becomes([WithPS(Machine,
                                   push_diag(ident.ps,
                                       create_diag_at_token(ident.ps.cur_token_,
                                                            "Invalid kind of condition type")))
                              EXCEPT !.frame.has_errors = TRUE])))))
ConditionReturn ==
    /\ pc = "condition_types"
    /\ Let(advance(source_, PS(Machine)), LAMBDA next :
       /\ next.cur_token_.kind # "Identifier"
       /\ SectionReturns(next, "condition_types", frame.results))

\* parse_parameters and parse_constants: parse_constant_map, lines 272-327.
EnterConstantMap ==
    /\ pc = "driver"
    /\ cur_token_.kind \in {"KeywordParameters", "KeywordConstants"}
    /\ Becomes([Machine
                  EXCEPT !.pc = "constant_map",
                         !.frame = [section |-> IF cur_token_.kind = "KeywordParameters"
                                                THEN "parameters" ELSE "constants",
                                    has_errors |-> FALSE, result_map |-> EmptyMap]])
ConstantItem ==
    /\ pc = "constant_map"
    /\ Let(advance(source_, PS(Machine)), LAMBDA next :
       /\ next.cur_token_.kind = "Identifier"
       /\ Let(expect_next_token(source_, next, {"PunctuatorEqual"}), LAMBDA equal :
          Let(advance(source_, equal.ps), LAMBDA value_token :
          Let(expect_integer_constant(source_, value_token, value_token.cur_token_,
                                      32, TRUE), LAMBDA constant :
          Let(content(source_, next.cur_token_), LAMBDA name :
             IF equal.mismatch
             THEN Becomes([WithPS(Machine, equal.ps) EXCEPT !.frame.has_errors = TRUE])
             ELSE IF constant.value = None
             THEN Becomes([WithPS(Machine, constant.ps) EXCEPT !.frame.has_errors = TRUE])
             ELSE IF name \in DOMAIN frame.result_map
             THEN Becomes([WithPS(Machine,
                                  push_diag(constant.ps,
                                      create_diag_at_token(next.cur_token_,
                                                           "Duplicate constant name")))
                             EXCEPT !.frame.has_errors = TRUE])
             ELSE Becomes([WithPS(Machine, constant.ps)
                             EXCEPT !.frame.result_map =
                                 try_emplace(@, name, Low32(constant.value[1]))]))))))
ConstantReturn ==
    /\ pc = "constant_map"
    /\ Let(advance(source_, PS(Machine)), LAMBDA next :
       /\ next.cur_token_.kind # "Identifier"
       /\ SectionReturns(next, frame.section, frame.result_map))

\* parse_string_map, lines 329-367.
EnterStringMap ==
    /\ pc = "driver"
    /\ cur_token_.kind = "KeywordStringMap"
    /\ Becomes([Machine
                  EXCEPT !.pc = "string_map",
                         !.frame = [section |-> "string_map", has_errors |-> FALSE,
                                    result_map |-> EmptyMap]])
\* The loop of parse_string_map as it would be if a duplicate replaced the
\* stored value.
StringItem_overwriting ==
    /\ pc = "string_map"
    /\ Let(advance(source_, PS(Machine)), LAMBDA next :
       /\ next.cur_token_.kind = "Identifier"
       /\ Let(expect_next_token(source_, next, {"PunctuatorArrow"}), LAMBDA arrow :
          Let(expect_next_token(source_, arrow.ps, {"Identifier"}), LAMBDA ident :
          Let(content(source_, next.cur_token_), LAMBDA name :
              IF arrow.mismatch
              THEN Becomes([WithPS(Machine, arrow.ps) EXCEPT !.frame.has_errors = TRUE])
              ELSE IF ident.mismatch
              THEN Becomes([WithPS(Machine, ident.ps) EXCEPT !.frame.has_errors = TRUE])
              ELSE Becomes([WithPS(Machine, ident.ps)
                              EXCEPT !.frame.result_map =
                                  (name :> content(source_, ident.ps.cur_token_)) @@ @])))))
StringItem ==
    /\ pc = "string_map"
    /\ Let(advance(source_, PS(Machine)), LAMBDA next :
       /\ next.cur_token_.kind = "Identifier"
       /\ Let(expect_next_token(source_, next, {"PunctuatorArrow"}), LAMBDA arrow :
          Let(expect_next_token(source_, arrow.ps, {"Identifier"}), LAMBDA ident :
          Let(content(source_, next.cur_token_), LAMBDA name :
              IF arrow.mismatch
              THEN Becomes([WithPS(Machine, arrow.ps) EXCEPT !.frame.has_errors = TRUE])
              ELSE IF ident.mismatch
              THEN Becomes([WithPS(Machine, ident.ps) EXCEPT !.frame.has_errors = TRUE])
              ELSE IF name \in DOMAIN frame.result_map
              THEN Becomes([WithPS(Machine,
                                   push_diag(ident.ps,
                                       create_diag_at_token(next.cur_token_,
                                                            "Duplicate string map item")))
                              EXCEPT !.frame.has_errors = TRUE])
              ELSE Becomes([WithPS(Machine, ident.ps)
                              EXCEPT !.frame.result_map =
                                  try_emplace(@, name,
                                              content(source_, ident.ps.cur_token_))])))))
StringReturn ==
    /\ pc = "string_map"
    /\ Let(advance(source_, PS(Machine)), LAMBDA next :
       /\ next.cur_token_.kind # "Identifier"
       /\ SectionReturns(next, "string_map", frame.result_map))

\* case Token::KeywordOperation, parse_operation_properties and
\* parse_operation_predicates: lines 87-101, 902-922.
EnterOperation ==
    /\ pc = "driver"
    /\ cur_token_.kind = "KeywordOperation"
    /\ Let(expect_next_token(source_, PS(Machine),
                             {"KeywordProperties", "KeywordPredicates"}), LAMBDA second :
       Let([WithPS(Machine, second.ps)
              EXCEPT !.frame = [section |-> IF second.ps.cur_token_.kind = "KeywordPredicates"
                                            THEN "operation_predicates"
                                            ELSE "operation_properties",
                                result |-> <<>>]], LAMBDA entered :
           IF second.mismatch THEN Becomes(SectionFails(entered))
           ELSE Becomes([WithPS(entered, advance(source_, second.ps))
                           EXCEPT !.pc = "identifier_list"])))
\* parse_identifier_list, lines 885-900: an iteration that ends in the loop
\* again or in recover_until ...
IdentifierItem ==
    /\ pc = "identifier_list"
    /\ IF cur_token_.kind \notin {"Identifier", "PunctuatorSemi"}
       THEN Becomes(LexUntil(WithPS(Machine,
                                    expect_current_token(PS(Machine),
                                        {"Identifier", "PunctuatorSemi"}).ps),
                             "PunctuatorSemi", TRUE, TRUE, cur_token_,
                             "identifier_list_failed"))
       ELSE Let(advance(source_, PS(Machine)), LAMBDA next :
            /\ next.cur_token_.kind # "PunctuatorSemi"
            /\ Becomes([WithPS(Machine, next)
                          EXCEPT !.frame.result = Append(@, content(source_, cur_token_))]))
\* ... and the last one, with the return of the list.
IdentifierListReturn ==
    /\ pc = "identifier_list"
    /\ cur_token_.kind \in {"Identifier", "PunctuatorSemi"}
    /\ Let(advance(source_, PS(Machine)), LAMBDA next :
       /\ next.cur_token_.kind = "PunctuatorSemi"
       /\ Becomes(SectionSucceeds(WithPS(Machine, advance(source_, next)), frame.section,
                                  Append(frame.result, content(source_, cur_token_)))))
IdentifierListFailed ==
    /\ pc = "identifier_list_failed"
    /\ Becomes(SectionFails(Machine))

\* parse_registers, lines 614-664.
EnterRegisters ==
    /\ pc = "driver"
    /\ cur_token_.kind = "KeywordRegisters"
    /\ Becomes([Machine
                  EXCEPT !.pc = "registers",
                         !.frame = [section |-> "registers", has_errors |-> FALSE,
                                    result |-> EmptyMap]])
\* Lines 653-656: `has_errors = true; recover_until(Token::PunctuatorSemi, false);`
CategoryFails(m) ==
    LexUntil([m EXCEPT !.frame.has_errors = TRUE], "PunctuatorSemi", FALSE, TRUE,
             m.cur_token_, "registers")
\* Lines 628-651: parse_register_category returned `registers`.
CategoryParsed(m, registers) ==
    Let(content(source_, m.frame.category_name_token), LAMBDA category_name :
    Let(IF category_name \in DOMAIN m.frame.result
        THEN [WithPS(m, push_diag(PS(m),
                            create_diag_at_token(m.frame.category_name_token,
                                                 "Duplicate register category name")))
                EXCEPT !.frame.has_errors = TRUE]
        ELSE [m EXCEPT !.frame.result = try_emplace(@, category_name, registers)],
        LAMBDA emplaced :
            IF emplaced.cur_token_.kind # "PunctuatorSemi"
            THEN CategoryFails(WithPS(emplaced,
                                      expect_current_token(PS(emplaced),
                                                           {"PunctuatorSemi"}).ps))
            ELSE [emplaced EXCEPT !.pc = "registers"]))
\* An iteration of the loop of parse_registers up to the first iteration of
\* the loop of parse_register_category_concatenation or parse_register_list.
RegisterCategory ==
    /\ pc = "registers"
    /\ Let(advance(source_, PS(Machine)), LAMBDA next :
       /\ next.cur_token_.kind = "Identifier"
       /\ Let(expect_next_token(source_, next, {"Identifier", "PunctuatorEqual", "String"}),
              LAMBDA expected :
          Let([WithPS(Machine, expected.ps)
                 EXCEPT !.frame = [section |-> "registers",
                                   has_errors |-> frame.has_errors,
                                   result |-> frame.result,
                                   category_name_token |-> next.cur_token_,
                                   registers |-> <<>>]], LAMBDA entered :
              IF expected.mismatch THEN Becomes(CategoryFails(entered))
              ELSE IF entered.cur_token_.kind = "PunctuatorEqual"
              THEN Becomes([entered EXCEPT !.pc = "concatenation"])
              ELSE Becomes([entered EXCEPT !.pc = "register_list"]))))
\* The loops of parse_register_category_concatenation and parse_register_list
\* after one iteration `step`: the category fails, the loop goes on, or the
\* category is complete.
CategoryStep(step) ==
    Let([WithPS(Machine, step.ps) EXCEPT !.frame.registers = step.result], LAMBDA after :
        IF ~step.ok THEN Becomes(CategoryFails(after))
        ELSE IF step.more THEN Becomes(after)
        ELSE Becomes(CategoryParsed(after, after.frame.registers)))

\* parse_register_category_concatenation, lines 402-410.
ConcatenationStep ==
    /\ pc = "concatenation"
    /\ Let(concatenation_step(source_, PS(Machine), frame.result, frame.registers),
           CategoryStep)
\* parse_register_list, lines 510-591.
RegisterListStep ==
    /\ pc = "register_list"
    /\ Let(register_list_step(source_, PS(Machine), frame.registers), CategoryStep)
\* The return of parse_registers as it would be if the categories parsed
\* before an error were stored in the model.
RegistersReturn_keeping ==
    /\ pc = "registers"
    /\ Let(advance(source_, PS(Machine)), LAMBDA next :
       /\ next.cur_token_.kind # "Identifier"
       /\ IF frame.has_errors
          THEN Becomes([SectionFails(WithPS(Machine, next))
                          EXCEPT !.result.registers = frame.result])
          ELSE Becomes(SectionSucceeds(WithPS(Machine, next), "registers", frame.result)))
RegistersReturn ==
    /\ pc = "registers"
    /\ Let(advance(source_, PS(Machine)), LAMBDA next :
       /\ next.cur_token_.kind # "Identifier"
       /\ SectionReturns(next, "registers", frame.result))

\* parse_tables, lines 844-883.
EnterTables ==
    /\ pc = "driver"
    /\ cur_token_.kind = "KeywordTables"
    /\ Becomes([Machine
                  EXCEPT !.pc = "tables",
                         !.frame = [section |-> "tables", has_errors |-> FALSE,
                                    result |-> EmptyMap]])
\* An iteration of its loop up to the loop of parse_single_table, whose
\* `Table result` is content_ and key_size_.
TablesTable ==
    /\ pc = "tables"
    /\ Let(advance(source_, PS(Machine)), LAMBDA next :
       /\ next.cur_token_.kind = "Identifier"
       /\ Becomes([WithPS(Machine, advance(source_, next))
                     EXCEPT !.pc = "single_table",
                            !.frame = [section |-> "tables",
                                       has_errors |-> frame.has_errors,
                                       result |-> frame.result,
                                       table_name_token |-> next.cur_token_,
                                       keys |-> <<>>,
                                       key_range |-> next.cur_token_],
                            !.content_ = <<>>, !.key_size_ = 0, !.t_rows = <<>>]))
TablesReturn ==
    /\ pc = "tables"
    /\ Let(advance(source_, PS(Machine)), LAMBDA next :
       /\ next.cur_token_.kind # "Identifier"
       /\ SectionReturns(next, "tables", frame.result))
\* parse_single_table, lines 765-769: a row begins.
SingleTableRow ==
    /\ pc = "single_table"
    /\ cur_token_.kind # "PunctuatorSemi"
    /\ Becomes([Machine EXCEPT !.pc = "table_keys", !.frame.keys = <<>>])
\* Line 841 and lines 863-872: the table is returned and stored.
SingleTableReturn ==
    /\ pc = "single_table"
    /\ cur_token_.kind = "PunctuatorSemi"
    /\ Let(content(source_, frame.table_name_token), LAMBDA table_name :
           IF table_name \in DOMAIN frame.result
           THEN Becomes([WithPS(Machine,
                                push_diag(PS(Machine),
                                          create_diag_at_token(frame.table_name_token,
                                                               "Duplicate table name")))
                           EXCEPT !.pc = "tables", !.frame.has_errors = TRUE])
           ELSE Becomes([Machine
                           EXCEPT !.pc = "tables",
                                  !.frame.result =
                                      try_emplace(@, table_name,
                                                  [content_ |-> content_,
                                                   key_size_ |-> key_size_])]))
\* `return recover_until(Token::PunctuatorSemi, false);` of parse_single_table
RowFails(m) ==
    LexUntil(m, "PunctuatorSemi", FALSE, TRUE, m.cur_token_, "single_table_failed")
\* Lines 771-779: one key of the row.
TableKey ==
    /\ pc = "table_keys"
    /\ cur_token_.kind # "PunctuatorArrow"
    /\ Let(resolve_table_element(source_, PS(Machine), parse_result.registers), LAMBDA key :
           IF key.value = None THEN Becomes(RowFails(WithPS(Machine, key.ps)))
           ELSE Becomes([WithPS(Machine, key.ps)
                           EXCEPT !.frame.keys = Append(@, key.value[1]),
                                  !.frame.key_range = cur_token_]))
\* Lines 781-838, for a row that has as many keys as the table, or that sets
\* the key size: the value of the row.
TableValue ==
    /\ pc = "table_keys"
    /\ cur_token_.kind = "PunctuatorArrow"
    /\ key_size_ = 0 \/ key_size_ = Len(frame.keys)
    /\ Let(resolve_table_element(source_, advance(source_, PS(Machine)),
                                 parse_result.registers), LAMBDA value :
       Let([WithPS(Machine, value.ps)
              EXCEPT !.key_size_ = IF key_size_ = 0 THEN Len(frame.keys) ELSE @],
           LAMBDA sized :
               IF value.value = None THEN Becomes(RowFails(sized))
               ELSE Becomes([sized EXCEPT !.pc = "single_table",
                                          !.content_ = append_item(@, frame.keys,
                                                                   value.value[1]),
                                          !.t_rows = Append(@, [keys |-> frame.keys,
                                                                value |-> value.value[1]])])))
\* Lines 784-828: the row has another number of keys than the table. With
\* keys it is annotated at its last key and rejected.
TableKeyMismatch ==
    /\ pc = "table_keys"
    /\ cur_token_.kind = "PunctuatorArrow"
    /\ key_size_ # 0 /\ key_size_ # Len(frame.keys)
    /\ frame.keys # <<>>
    /\ Becomes(RowFails(WithPS(Machine,
                   push_diag(PS(Machine),
                             Diag("The table expects N keys",
                                  IF key_size_ < Len(frame.keys)
                                  THEN frame.key_range.begin ELSE frame.key_range.end,
                                  frame.key_range.end, <<>>)))))
\* Without keys, key_ranges.back() is taken of an empty vector: the range it
\* reads is any value, or the read ends the process.
TableKeyMismatchNoKeys ==
    /\ pc = "table_keys"
    /\ cur_token_.kind = "PunctuatorArrow"
    /\ key_size_ # 0 /\ key_size_ # Len(frame.keys)
    /\ frame.keys = <<>>
    /\ \/ Becomes([Machine EXCEPT !.pc = "crashed"])
       \/ \E at \in {0, Len(source_)} :
             Becomes(RowFails(WithPS(Machine,
                         push_diag(PS(Machine),
                                   Diag("The table expects N keys", at, at, <<>>)))))
\* Lines 873-875: parse_single_table returned std::nullopt.
SingleTableFailed ==
    /\ pc = "single_table_failed"
    /\ Becomes([Machine EXCEPT !.pc = "tables", !.frame.has_errors = TRUE])

\* parse_functional_unit, lines 992-1006: the name of the functional unit.
EnterFUnit ==
    /\ pc = "driver"
    /\ cur_token_.kind = "KeywordFUnit"
    /\ Let(expect_next_token(source_, PS(Machine), {"Identifier"}), LAMBDA name :
           Becomes([WithPS(Machine, name.ps)
                      EXCEPT !.pc = "funit",
                             !.frame = [section |-> "functional_unit",
                                        has_errors |-> name.mismatch,
                                        result |-> [DefaultFunctionalUnit EXCEPT !.name =
                                            IF name.mismatch THEN <<>>
                                            ELSE content(source_, name.ps.cur_token_)]]]))
\* An iteration of its loop up to the call of lex_until, lines 1009-1027.
FUnitItem ==
    /\ pc = "funit"
    /\ Let(advance(source_, PS(Machine)), LAMBDA next :
       /\ next.cur_token_.kind \in {"Identifier", "KeywordEncoding"}
       /\ Becomes(LexUntil(WithPS(Machine, advance(source_, next)), "item_name",
                           FALSE, FALSE, next.cur_token_, "funit_item")))
FUnitReturn ==
    /\ pc = "funit"
    /\ Let(advance(source_, PS(Machine)), LAMBDA next :
       /\ next.cur_token_.kind \notin {"Identifier", "KeywordEncoding"}
       /\ SectionReturns(next, "functional_unit", frame.result))
EncodingWidthName == <<"E","N","C","O","D","I","N","G"," ","W","I","D","T","H">>
\* Lines 1029-1035 with parse_encoding_width, up to its recover_until.
FUnitEncodingWidth ==
    /\ pc = "funit_item"
    /\ content(source_, until.merged) = EncodingWidthName
    /\ Let(encoding_width_value(source_, PS(Machine)), LAMBDA val :
           IF val.value = None
           THEN Becomes(LexUntil(WithPS(Machine, val.ps), "PunctuatorSemi", FALSE, TRUE,
                                 val.ps.cur_token_, "encoding_width_failed"))
           ELSE Becomes([WithPS(Machine, val.ps)
                           EXCEPT !.pc = "funit",
                                  !.frame.result.encoding_width = val.value[1]]))
EncodingWidthFailed ==
    /\ pc = "encoding_width_failed"
    /\ Becomes([Machine EXCEPT !.pc = "funit", !.frame.has_errors = TRUE])
\* The values a read of the encoding width gives before it was set.
UninitializedWidths == { U32(0), U32(4), <<LimbMax, LimbMax>> }
\* Lines 1038-1058: the item is a bitmask.
FUnitBitmask ==
    /\ pc = "funit_item"
    /\ content(source_, until.merged) # EncodingWidthName
    /\ cur_token_.kind = "String"
    /\ \E encoding_width \in IF frame.result.encoding_width = Uninitialized
                             THEN UninitializedWidths
                             ELSE {frame.result.encoding_width} :
          Let(parse_bitmask(source_, PS(Machine), encoding_width), LAMBDA bitmask :
          Let(content(source_, until.merged), LAMBDA name :
              IF bitmask.value = None
              THEN Becomes([WithPS(Machine, bitmask.ps)
                              EXCEPT !.pc = "funit", !.frame.has_errors = TRUE])
              ELSE IF name \in DOMAIN frame.result.bitmasks
              THEN Becomes([WithPS(Machine,
                                   push_diag(bitmask.ps,
                                             create_diag_at_token(until.merged,
                                                                  "Duplicate bitmask name")))
                              EXCEPT !.pc = "funit", !.frame.has_errors = TRUE])
              ELSE Becomes([WithPS(Machine, bitmask.ps)
                              EXCEPT !.pc = "funit",
                                     !.frame.result.bitmasks =
                                         try_emplace(@, name, bitmask.value[1])])))
\* Lines 1059-1062: any other item is skipped to the next semicolon.
FUnitOtherItem ==
    /\ pc = "funit_item"
    /\ content(source_, until.merged) # EncodingWidthName
    /\ cur_token_.kind # "String"
    /\ Becomes(LexUntil(Machine, "PunctuatorSemi", FALSE, TRUE, cur_token_, "funit"))

\* The fragments of the source texts.
Fragments ==
    { <<"ARCHITECTURE", "'sm'", "A", "32", "B", ";">>,
      <<"ARCHITECTURE", "A", ";", "B", "1">>,
      <<"PARAMETERS", "A", "=", "1">>,
      <<"PARAMETERS", "B", "=", "2">>,
      <<"CONSTANTS", "A", "=", "1", "B", "=", "2">>,
      <<"CONSTANTS", "A", "=", "1", "A", "=", "2">>,
      <<"CONSTANTS", "A", "=", "1", "A", "=", "2", "A", "=", "5">>,
      <<"CONSTANTS", "A", "1", "B", "=", "x">>,
      <<"STRING_MAP", "A", "->", "B">>,
      <<"STRING_MAP", "A", "->", "B", "A", "->", "B", "C", "=", "D", "->", "1">>,
      <<"REGISTERS", "C", "A", "=", "1", ",", "B", ";", "U", "=", "C", "+", "C", ";">>,
      <<"REGISTERS", "C", "=", "U", ";">>,
      <<"REGISTERS", "C", "A", "(", "0", "..", "1", ")", "=", "(", "2", "..", "3", ")", ";">>,
      <<"REGISTERS", "C", "A", ",", "B", "=", "1", "x", ";", "C", "A", ";", "D", "5", ";",
        "T", "'ab">>,
      <<"TABLES", "T", "1", "C", "@", "A", "->", "2", "-", "5", "->", "1", ";">>,
      <<"TABLES", "T", "->", "1", "1", "2", "->", "5", ";">>,
      <<"TABLES", "T", "1", "->", "2", "1", "2", "->", "3", ";", "T", ";", "T", ";">>,
      <<"TABLES", "T", "1", "->", "2", "->", "3", ";", "U", "1", "->", "'ab'", ";">>,
      <<"TABLES", "T", "'A'", "->", "1", ";">>,
      <<"TABLES", "T", "4294967295", "->", "1", "2", "->", "3", ";">>,
      <<"TABLES", "T", "-", "->", "1", "2", "->", "3", ";">>,
      <<"TABLES", "U", "1", "=", "->", "2", ";">>,
      <<"OPERATION", "PROPERTIES", "A", "B", ";">>,
      <<"OPERATION", "PREDICATES", ";", "A", ";">>,
      <<"OPERATION", "PREDICATES", "A", "=", ";">>,
      <<"OPERATION", "A", ";">>,
      <<"CONDITION", "TYPES", "A", ":", "ERROR", "B", ":", "C">>,
      <<"CONDITION", "TYPES", "A", ":", "1">>,
      <<"CONDITION", "A">>,
      <<"FUNIT", "uC", "ENCODING", "WIDTH", "4", ";", "A", "0", ";", "B", "'XX..'">>,
      <<"FUNIT", "uC", "A", "0">>,
      <<"FUNIT", "uC", "ENCODING", "WIDTH", "4", ";", "A", "'X'", "B", "'XxXx'">>,
      <<"FUNIT", "uC", "ENCODING", "WIDTH", "4", ";", "A", "'XX..'", "A", "'X..X'",
        "B", "0", ";">>,
      <<"FUNIT", "5", "ENCODING", "WIDTH", "0", ";", "A", "'XX..'", "A", "'XX..'",
        "B", "'XxXx'">>,
      <<"TYPES">>,
      <<";">> }

Sources ==
    { Text(Flatten(fragments)) :
          fragments \in UNION { [1..n -> Fragments] : n \in 0..MaxFrags } }

ParseInit ==
    /\ source_ \in Sources
    /\ current_ = 0 /\ cur_token_ = Token("Unknown", 0, 0)
    /\ diagnostics_ = <<>> /\ pc = "parse" /\ has_errors = FALSE /\ parse_result = DefaultISA
    /\ frame = NoFrame /\ until = NoUntil /\ outcome = None /\ returns = <<>>
    /\ stop = "none" /\ recover_from = None

\* The characters of the literals enumerated exhaustively, and the literals
\* at the limits of the 32- and 64-bit ranges and of the overflow checks.
LitDigits == {"0", "1", "2", "5", "6", "7", "8", "9"}
LitChars == LitDigits \cup {"f", "x", "b", "_"}
ShortLiterals ==
    { t \in UNION { [1..n -> LitChars] : n \in 1..MaxLitLen } : t[1] \in LitDigits }
LongLiterals ==
    { <<"4","2","9","4","9","6","7","2","9","5">>,
      <<"4","2","9","4","9","6","7","2","9","6">>,
      <<"2","1","4","7","4","8","3","6","4","7">>,
      <<"2","1","4","7","4","8","3","6","4","8">>,
      <<"2","1","4","7","4","8","3","6","4","9">>,
      <<"0","x","F","F","F","F","F","F","F","F">>,
      <<"0","x","1","0","0","0","0","0","0","0","0">>,
      <<"0","x","7","f","f","f","_","f","f","f","f">>,
      <<"0","X","8","0","0","0","_","0","0","0","0">>,
      <<"1","8","4","4","6","7","4","4","0","7","3","7","0","9","5","5","1","6","1","5">>,
      <<"1","8","4","4","6","7","4","4","0","7","3","7","0","9","5","5","1","6","1","6">>,
      <<"9","2","2","3","3","7","2","0","3","6","8","5","4","7","7","5","8","0","7">>,
      <<"9","2","2","3","3","7","2","0","3","6","8","5","4","7","7","5","8","0","8">>,
      <<"9","2","2","3","3","7","2","0","3","6","8","5","4","7","7","5","8","0","9">>,
      <<"9","9","9","9","9","9","9","9","9","9","9","9","9","9","9","9","9","9","9","9">>,
      <<"1","8","4","4","6","7","4","4","0","7","3","7","0","9","5","5","1","6","1","5","0">>,
      <<"0","x","F","F","F","F","F","F","F","F","F","F","F","F","F","F","F","F">>,
      <<"0","x","1","0","0","0","0","0","0","0","0","0","0","0","0","0","0","0","0">>,
      <<"0","x","0","0","0","0","0","0","0","0","0","0","0","0","0","0","0","0","1">>,
      <<"0","x","8","0","0","0","0","0","0","0","0","0","0","0","0","0","0","0">>,
      <<"0","x","8","0","0","0","0","0","0","0","0","0","0","0","0","0","0","1">>,
      <<"0","1","7","7","7","7","7","7","7","7","7","7","7","7","7","7","7","7","7","7","7","7","7">>,
      <<"0","2","0","0","0","0","0","0","0","0","0","0","0","0","0","0","0","0","0","0","0","0","0">>,
      <<"0","7","7","7","7","7","7","7","7","7","7","7","7","7","7","7","7","7","7","7","7","7">>,
      <<"0","0","0","0","0","0","0","0","0","0","0","0","0","0","0","0","0","0","0","0","0","0","3","7","7">>,
      <<"0","b","0","1","1","1","1","1","1","1","1","1","1","1","1","1","1","1","1","1","1","1","1","1","1","1","1","1","1","1","1","1","1","1","1","1","1","1","1","1","1","1","1","1","1","1","1","1","1","1","1","1","1","1","1","1","1","1","1","1","1","1","1","1","1","1","1">>,
      <<"0","B","1","0","0","0","0","0","0","0","0","0","0","0","0","0","0","0","0","0","0","0","0","0","0","0","0","0","0","0","0","0","0","0","0","0","0","0","0","0","0","0","0","0","0","0","0","0","0","0","0","0","0","0","0","0","0","0","0","0","0","0","0","0","0","0","0">>,
      <<"0","b","1","1","1","1","1","1","1","1","1","1","1","1","1","1","1","1","1","1","1","1","1","1","1","1","1","1","1","1","1","1","1","1","1","1","1","1","1","1","1","1","1","1","1","1","1","1","1","1","1","1","1","1","1","1","1","1","1","1","1","1","1","1","1","1">>,
      <<"0","b","1","0","0","0","0","0","0","0","0","0","0","0","0","0","0","0","0","0","0","0","0","0","0","0","0","0","0","0","0","0","0","0","0","0","0","0","0","0","0","0","0","0","0","0","0","0","0","0","0","0","0","0","0","0","0","0","0","0","0","0","0","0","0","0">>,
      <<"1","_","0","0","0">>,
      <<"0","X","f","F">>,
      <<"0","B","1","1">>,
      <<"1","_","_","0">>,
      <<"0","x","1","F">>,
      <<"1","a">>,
      <<"1","A">>,
      <<"0","b","2","0","0","0","0","0","0","0","0","0","0","0","0","0","0","0","0","0","0","0","0","0","0","0","0","0","0","0","0","0","0","0","0","0","0","0","0","0","0","0","0","0","0","0","0","0","0","0","0","0","0","0","0","0","0","0","0","0","0","0","0","0","0","0">> }

\* The sign the token starts with; a sign token and the integer token are
\* merged with the white space between them (Token::merge).
Signs(signedness) ==
    IF signedness THEN { <<>>, <<"+">>, <<"-">>, <<"-", " ">> } ELSE { <<>>, <<"+">> }
Widths == {1, 8, 32, 64}

IntInit ==
    /\ i_signedness \in BOOLEAN
    /\ i_bits \in Widths
    /\ i_token \in { sign \o t : sign \in Signs(i_signedness),
                                 t \in ShortLiterals \cup LongLiterals }
    /\ i_out = None

\* get_integer_constant(token, bits, signedness)
IntEvaluate ==
    /\ i_out = None
    /\ i_out' = Some(get_integer_constant(i_token, 0, i_bits, i_signedness))
    /\ UNCHANGED <<i_token, i_bits, i_signedness, notIntVars>>

-----------------------------------------------------------------------------
(* The inputs of the BitMask constructor: the descriptions parse_bitmask     *)
(* hands to it, which hold no other character than X and the full stop.      *)

MaskInit ==
    /\ b_description \in UNION { [1..n -> {"X", "."}] : n \in 0..MaxMaskLen }
    /\ b_mask = None

\* BitMask(str_description, '.', 'X')
MaskConstruct ==
    /\ b_mask = None
    /\ b_mask' = Some(BitMask(b_description))
    /\ UNCHANGED <<b_description, notMaskVars>>

-----------------------------------------------------------------------------
(* The bounds of a range expression: the values up to MaxBound, and those    *)
(* as far below 2^16 and 2^32.                                               *)

Bounds32 ==
    UNION { { U32(d), <<LimbMax - d, 0>>, <<LimbMax - d, LimbMax>> } : d \in 0..MaxBound }

RangeInit ==
    /\ x_begin \in Bounds32
    /\ x_end \in Bounds32
    /\ x_out = None

\* Lines 437-447 of parse_range_expr on the bounds begin and end: the test
\* of their order, then RangeExpr(expr_range, *begin, *end). std::views::iota
\* requires begin <= end + 1 of its arguments; without that the construction
\* is undefined, and ends the process where the library checks it.
RangeEvaluate ==
    /\ x_out = None
    /\ IF WordLess(x_end, x_begin)
       THEN x_out' = Some([value |-> None,
                           diagnostic |->
                               Some("The start of the range is greater than the end"),
                           aborted |-> FALSE])
       ELSE \/ x_out' = Some([value |-> Some(RangeExpr(0, 0, x_begin, x_end)),
                              diagnostic |-> None, aborted |-> FALSE])
            \/ /\ WordLess(WordAdd(x_end, 1), x_begin)
               /\ x_out' = Some([value |-> None, diagnostic |-> None, aborted |-> TRUE])
    /\ UNCHANGED <<x_begin, x_end, notRangeVars>>

-----------------------------------------------------------------------------
(* The lexer on its own: Lexer(source) and its calls of next_token().        *)

\* A letter, a digit, the underscore, white space, a quote, the characters
\* of a punctuator of two, a full stop, and a character the lexer has no
\* case for.
LexChars == {"a", "1", "_", " ", "\n", "'", "-", ">", ".", "#"}

LexInit ==
    /\ source_ \in UNION { [1..n -> LexChars] : n \in 0..MaxSourceLen }
    /\ current_ = 0 /\ cur_token_ = Token("Unknown", 0, 0)
    /\ diagnostics_ = <<>> /\ pc = "lex" /\ has_errors = FALSE /\ parse_result = DefaultISA
    /\ frame = NoFrame /\ until = NoUntil /\ outcome = None /\ returns = <<>>
    /\ stop = "none" /\ recover_from = None

\* lexer.next_token()
LexNext ==
    /\ pc = "lex"
    /\ Becomes(WithPS(Machine, advance(source_, PS(Machine))))

-----------------------------------------------------------------------------
(* Specifications.                                                           *)

IntIdle == i_token = <<"0">> /\ i_bits = 32 /\ i_signedness = FALSE /\ i_out = None
MaskIdle == b_description = <<>> /\ b_mask = None
RangeIdle == x_begin = U32(0) /\ x_end = U32(0) /\ x_out = None

SpecTableInit == TableInit /\ RegInit /\ IntIdle /\ MaskIdle /\ RangeIdle /\ ParseIdle
SpecTableNext == TableAppend \/ TableGet
SpecTable == SpecTableInit /\ [][SpecTableNext]_vars

SpecRegInit == TableInit /\ key_size_ = 0 /\ RegInit /\ IntIdle /\ MaskIdle /\ RangeIdle /\ ParseIdle
SpecRegNext == RegAppendValue \/ RegAppendDefault \/ RegConcat \/ RegFind
SpecReg == SpecRegInit /\ [][SpecRegNext]_vars

SpecIntInit == TableInit /\ key_size_ = 0 /\ RegInit /\ IntInit /\ MaskIdle /\ RangeIdle /\ ParseIdle
SpecIntNext == IntEvaluate
SpecInt == SpecIntInit /\ [][SpecIntNext]_vars

\* The constructor of BitMask on each description of at most MaxMaskLen characters.
SpecMaskInit == TableInit /\ key_size_ = 0 /\ RegInit /\ IntIdle /\ MaskInit /\ RangeIdle /\ ParseIdle
SpecMaskNext == MaskConstruct
SpecMask == SpecMaskInit /\ [][SpecMaskNext]_vars

\* The range expression on each pair of bounds.
SpecRangeInit ==
    TableInit /\ key_size_ = 0 /\ RegInit /\ IntIdle /\ MaskIdle /\ RangeInit /\ ParseIdle
SpecRangeNext == RangeEvaluate
SpecRange == SpecRangeInit /\ [][SpecRangeNext]_vars

\* The lexer alone, on each source text of at most MaxSourceLen characters.
SpecLexInit ==
    TableInit /\ key_size_ = 0 /\ RegInit /\ IntIdle /\ MaskIdle /\ RangeIdle /\ LexInit
SpecLexNext == LexNext
SpecLex == SpecLexInit /\ [][SpecLexNext]_vars

\* parse() on each of the source texts.
SpecParseInit == TableInit /\ key_size_ = 0 /\ RegInit /\ IntIdle /\ MaskIdle /\ RangeIdle /\ ParseInit
SpecParseNext ==
    \/ Start \/ DriverEnd \/ DriverNonKeyword \/ DriverDefault
    \/ LexUntilStep \/ LexUntilReturn
    \/ EnterArchitecture \/ ArchitectureItem \/ ArchitectureValue \/ ArchitectureReturn
    \/ EnterCondition \/ ConditionType \/ ConditionReturn
    \/ EnterConstantMap \/ ConstantItem \/ ConstantReturn
    \/ EnterStringMap \/ StringItem \/ StringReturn
    \/ EnterOperation \/ IdentifierItem \/ IdentifierListReturn \/ IdentifierListFailed
    \/ EnterRegisters \/ RegisterCategory \/ ConcatenationStep \/ RegisterListStep
    \/ RegistersReturn
    \/ EnterTables \/ TablesTable \/ TablesReturn \/ SingleTableRow \/ SingleTableReturn
    \/ TableKey \/ TableValue \/ TableKeyMismatch \/ TableKeyMismatchNoKeys
    \/ SingleTableFailed
    \/ EnterFUnit \/ FUnitItem \/ FUnitReturn \/ FUnitEncodingWidth
    \/ EncodingWidthFailed \/ FUnitBitmask \/ FUnitOtherItem
SpecParse == SpecParseInit /\ [][SpecParseNext]_vars

-----------------------------------------------------------------------------
(* Helpers of the claims.                                                    *)

Min(S) == CHOOSE x \in S : \A y \in S : x <= y
Max(S) == CHOOSE x \in S : \A y \in S : y <= x
Lowered(name) == [i \in DOMAIN name |-> tolower(name[i])]

\* The rows of `rows` that match the query `keys`, by the rule of the spec.
MatchingRows(rows, keys) ==
    { i \in DOMAIN rows :
        \A j \in DOMAIN keys :
            rows[i].keys[j] = keys[j] \/ rows[i].keys[j] = MATCH_ANY }

\* The registers of `regs` whose name is `name`, letter case ignored.
SameNameRegs(regs, name) ==
    { i \in DOMAIN regs : Lowered(regs[i].name) = Lowered(name) }

-----------------------------------------------------------------------------
(* C7: Table::get_value is first-match-wins: it returns the value of the     *)
(* first row, in insertion order, whose every key equals the query key at    *)
(* that position or is MATCH_ANY, and absent when no row matches.            *)
C7_FirstMatchWins ==
    t_query # None =>
        LET q == t_query[1]
            M == MatchingRows(q.rows, q.keys)
        IN  t_result = IF M = {} THEN None ELSE Some(q.rows[Min(M)].value)

\* A matching wildcard row stands before a matching row without wildcard
\* that holds another value, and the wildcard row's value is returned.
C7_Witness ==
    /\ t_query # None
    /\ LET q == t_query[1]
       IN  \E i, k \in DOMAIN q.rows :
              /\ i < k
              /\ {i, k} \subseteq MatchingRows(q.rows, q.keys)
              /\ \E j \in DOMAIN q.keys : q.rows[i].keys[j] = MATCH_ANY
              /\ q.rows[k].keys = q.keys
              /\ q.rows[i].value # q.rows[k].value
              /\ i = Min(MatchingRows(q.rows, q.keys))
              /\ t_result = Some(q.rows[i].value)

(* C9: RegisterGroup::find(name) is case-insensitive and last-definition-    *)
(* wins: it returns the value of the most recently appended register whose   *)
(* name equals the argument ignoring letter case, also when that register    *)
(* came from a concatenated group, and absent when there is none.            *)
C9_FindLastIgnoringCase ==
    r_query # None =>
        LET q == r_query[1]
            S == SameNameRegs(q.regs, q.name)
        IN  r_result = IF S = {} THEN None ELSE Some(q.regs[Max(S)].value)

\* The register found was spelled in another letter case, came from the
\* concatenated group, and shadows an earlier register of the same name.
C9_Witness ==
    /\ r_query # None
    /\ LET q == r_query[1]
           S == SameNameRegs(q.regs, q.name)
       IN  /\ Cardinality(S) >= 2
           /\ q.regs[Max(S)].name # q.name
           /\ q.regs[Max(S)].value # q.regs[Min(S)].value
           /\ q.other # <<>>
           /\ Len(q.other) < Len(q.regs)
           /\ SubSeq(q.regs, Len(q.regs) - Len(q.other) + 1, Len(q.regs)) = q.other
           /\ r_result = Some(q.regs[Max(S)].value)

-----------------------------------------------------------------------------
(* The literal as the specification reads it: sign, base prefix, digit part, *)
(* and the magnitude as an unbounded natural (little-endian limbs, no        *)
(* leading zero limb; zero is the empty sequence).                           *)

LitNegative(token) == token[1] = "-"
LitBody(token) ==
    LET unsignedPart == IF token[1] \in {"-", "+"} THEN Tail(token) ELSE token
    IN  SelectSeq(unsignedPart, LAMBDA c : ~isspace(c))
LitBase(body) ==
    IF Len(body) >= 2 /\ body[1] = "0" /\ body[2] \in {"b", "B"} THEN 2
    ELSE IF Len(body) >= 2 /\ body[1] = "0" /\ body[2] \in {"x", "X"} THEN 16
    ELSE IF Len(body) >= 2 /\ body[1] = "0" THEN 8
    ELSE 10
LitDigitPart(body) ==
    IF LitBase(body) \in {2, 16} THEN SubSeq(body, 3, Len(body))
    ELSE IF LitBase(body) = 8 THEN Tail(body)
    ELSE body

LegalDigits(base) ==
    CASE base = 2  -> {"0", "1"}
      [] base = 8  -> {"0", "1", "2", "3", "4", "5", "6", "7"}
      [] base = 10 -> Range(DigitSeq)
      [] base = 16 -> Range(DigitSeq) \cup {"a", "b", "c", "d", "e", "f"}
                                      \cup {"A", "B", "C", "D", "E", "F"}
LegalDigitValue(c) ==
    IF c \in Range(DigitSeq) THEN IndexOf(c, DigitSeq) - 1
    ELSE 9 + IndexOf(tolower(c), LowerSeq)

SeparatorsWellPlaced(digits) ==
    \A i \in DOMAIN digits :
        digits[i] = "_" => /\ i # 1 /\ i # Len(digits)
                           /\ digits[i - 1] # "_"
WellFormed(token) ==
    LET digits == LitDigitPart(LitBody(token))
    IN  /\ digits # <<>>
        /\ \A i \in DOMAIN digits :
              digits[i] = "_" \/ digits[i] \in LegalDigits(LitBase(LitBody(token)))
        /\ SeparatorsWellPlaced(digits)

RECURSIVE BigMulAdd(_, _, _)
BigMulAdd(m, b, carry) ==
    IF m = <<>> THEN (IF carry = 0 THEN <<>> ELSE <<carry>>)
    ELSE LET t == m[1] * b + carry
         IN  <<t % LimbBase>> \o BigMulAdd(Tail(m), b, t \div LimbBase)
\* The positional value of `digits`, acc.m being that of the first acc.n.
RECURSIVE PositionalValue(_, _, _)
PositionalValue(digits, base, acc) ==
    IF acc.n = Len(digits) THEN acc.m
    ELSE IF digits[acc.n + 1] = "_"
    THEN PositionalValue(digits, base, [acc EXCEPT !.n = @ + 1])
    ELSE PositionalValue(digits, base,
             [n |-> acc.n + 1,
              m |-> BigMulAdd(acc.m, base, LegalDigitValue(digits[acc.n + 1]))])
Magnitude(token) ==
    PositionalValue(LitDigitPart(LitBody(token)), LitBase(LitBody(token)),
                    [n |-> 0, m |-> <<>>])

\* The number of bits of m (0 for zero), and m = 2^k.
BitLength(m) ==
    IF m = <<>> THEN 0
    ELSE 16 * (Len(m) - 1) + (CHOOSE k \in 1..16 : 2^(k-1) <= m[Len(m)] /\ m[Len(m)] < 2^k)
IsPowerOfTwo(m, k) ==
    /\ Len(m) = (k \div 16) + 1
    /\ \A i \in DOMAIN m : m[i] = IF i = Len(m) THEN 2^(k % 16) ELSE 0

\* m is in the range of width w: m <= 2^w - 1 unsigned, m <= 2^(w-1) - 1
\* signed and not negative, m <= 2^(w-1) signed with a leading "-".
InRange(m, w, signedness, negative) ==
    IF ~signedness THEN BitLength(m) <= w
    ELSE IF ~negative THEN BitLength(m) <= w - 1
    ELSE BitLength(m) <= w - 1 \/ IsPowerOfTwo(m, w - 1)

(* C10: the integer evaluator accepts a well-formed literal for width w     *)
(* exactly when its mathematical magnitude is in range (m <= 2^w - 1         *)
(* unsigned, m <= 2^(w-1) - 1 signed non-negative, m <= 2^(w-1) signed with  *)
(* a leading "-"); every other magnitude, also one beyond 64 bits, fails     *)
(* with a diagnostic and never wraps into an accepted value.                 *)
C10_AcceptsExactlyInRange ==
    (i_out # None /\ WellFormed(i_token)) =>
        LET ok == InRange(Magnitude(i_token), i_bits, i_signedness,
                          LitNegative(i_token))
        IN  /\ (i_out[1].value # None) <=> ok
            /\ (i_out[1].value = None) => i_out[1].note # None

\* A well-formed literal whose magnitude needs more than 64 bits, evaluated
\* by the loop without overflow checks were it not for the digit count, is
\* rejected with the overflow diagnostic.
C10_Witness ==
    /\ i_out # None
    /\ WellFormed(i_token)
    /\ BitLength(Magnitude(i_token)) = 65
    /\ i_bits = 64 /\ ~i_signedness
    /\ i_out[1].value = None
    /\ i_out[1].note # None
    /\ i_out[1].note[1].message = "because the integer constant overflows"

-----------------------------------------------------------------------------
(* Helpers of the claims about ISAParser::parse.                             *)

\* parse() returned, and what it returned is an ISA model.
ReturnsModel == pc = "done" /\ outcome # Nullopt
\* The returns of the section routines, and the failed checks of the second
\* keyword, that did not give a section.
FailedSections == { i \in DOMAIN returns : ~returns[i].success }

-----------------------------------------------------------------------------
(* C1: when parse() has returned, it returned a model exactly when no        *)
(* section failed and the loop of the driver did not stop at a token that is *)
(* no keyword; after one failed section no model is returned, whatever the   *)
(* later sections do.                                                        *)
C1_ModelIffNoFailureAndNoStrayToken ==
    pc = "done" => (ReturnsModel <=> (FailedSections = {} /\ stop # "NonKeyword"))

\* A section failed, a later one succeeded, and no model is returned.
C1_Witness ==
    /\ pc = "done"
    /\ ~ReturnsModel
    /\ \E i \in FailedSections : \E k \in DOMAIN returns : i < k /\ returns[k].success

\* C1 as stated: a model is returned exactly when no section failed.
C1_ModelIffNoFailure ==
    pc = "done" => (ReturnsModel <=> FailedSections = {})

-----------------------------------------------------------------------------
(* C2: parse() returns a model only if no diagnostic was produced during the *)
(* whole run: a run that appended a diagnostic ends with no model.           *)
C2_NoModelWithDiagnostics ==
    ReturnsModel => diagnostics_ = <<>>

-----------------------------------------------------------------------------
(* C3: for every finite source text parse() terminates by returning: no run  *)
(* of it ends in a state where parse() has not returned and takes no further *)
(* step.                                                                     *)
C3_ParseAlwaysReturns ==
    pc # "crashed"

-----------------------------------------------------------------------------
(* The recovery of the driver.                                               *)

\* The first keyword, or End, that the lexer gives from the state `ps` on.
RECURSIVE FirstKeywordFrom(_, _)
FirstKeywordFrom(source, ps) ==
    IF ps.cur_token_.kind = "End" \/ is_keyword(ps.cur_token_) THEN ps.cur_token_
    ELSE FirstKeywordFrom(source, advance(source, ps))

\* A CONSTANTS section with a duplicate name and a REGISTERS section with a
\* reference to the unknown category U.
TwoErrorsFile ==
    Text(<<"CONSTANTS", "A", "=", "1", "A", "=", "2", "REGISTERS", "C", "=", "U", ";">>)

-----------------------------------------------------------------------------
(* C4: after a section failed the error flag is set, and the driver is back  *)
(* at the head of its loop with the first keyword (or End) at or after the   *)
(* token of the failure as current token, no diagnostic added for the tokens *)
(* it discarded; a CONSTANTS section with one duplicate name followed by a   *)
(* REGISTERS section with one reference to an unknown category ends with     *)
(* exactly two diagnostics and no model.                                     *)
C4_RecoversAtNextKeyword ==
    /\ (pc = "driver" /\ returns # <<>> /\ ~returns[Len(returns)].success) =>
          /\ has_errors
          /\ Len(diagnostics_) = recover_from[1].diagnostics
          /\ cur_token_ =
                 FirstKeywordFrom(source_, [current_ |-> recover_from[1].token.end,
                                            cur_token_ |-> recover_from[1].token,
                                            diagnostics_ |-> <<>>])
    /\ (pc = "done" /\ source_ = TwoErrorsFile) =>
          Len(diagnostics_) = 2 /\ ~ReturnsModel

\* The file of the two errors was parsed to its end: both sections failed,
\* the second one after the driver resumed at its keyword.
C4_Witness ==
    /\ pc = "done" /\ source_ = TwoErrorsFile
    /\ [i \in DOMAIN returns |-> returns[i].section] = <<"constants", "registers">>
    /\ FailedSections = {1, 2}
    /\ diagnostics_[1].message = "Duplicate constant name"
    /\ Len(diagnostics_) = 2

-----------------------------------------------------------------------------
(* The token a section routine returns at.                                   *)

\* The routines whose loop runs `while (lexer_.next_token().is(Identifier))`.
IdentifierLoopSections ==
    {"architecture", "condition_types", "parameters", "constants", "string_map",
     "registers", "tables"}
\* The token follows a semicolon of the source, blanks apart.
FollowsSemicolon(source, token) ==
    \E k \in 1..token.begin :
        /\ source[k] = ";"
        /\ \A j \in (k + 1)..token.begin : source[j] = " "
KeywordOrEnd(token) == token.kind = "End" \/ is_keyword(token)

-----------------------------------------------------------------------------
-----------------------------------------------------------------------------
(* C6: the loop of the driver is left, and parse() returns, in exactly three *)
(* ways, each from the head of the loop: at End, with the model exactly when *)
(* the error flag is clear; at a keyword the switch has no case for, with no *)
(* diagnostic added and the model exactly when the error flag is clear; at a *)
(* token that is no keyword, with exactly one diagnostic added, no model,    *)
(* and no section parsed any more.                                           *)
C6_ThreeStops ==
    [][(pc # "done" /\ pc' = "done") =>
          /\ pc = "driver"
          /\ returns' = returns /\ cur_token_' = cur_token_ /\ current_' = current_
          /\ \/ /\ cur_token_.kind = "End"
                /\ stop' = "End"
                /\ diagnostics_' = diagnostics_
                /\ (outcome' # Nullopt) <=> ~has_errors
             \/ /\ is_keyword(cur_token_) /\ cur_token_.kind \notin Dispatched
                /\ stop' = "NoDispatch"
                /\ diagnostics_' = diagnostics_
                /\ (outcome' # Nullopt) <=> ~has_errors
             \/ /\ cur_token_.kind # "End" /\ ~is_keyword(cur_token_)
                /\ stop' = "NonKeyword"
                /\ \E d \in {create_diag_at_token(cur_token_, "Unexpected token")} :
                       diagnostics_' = Append(diagnostics_, d)
                /\ outcome' = Nullopt]_vars

\* parse() stopped at a keyword without a case after a section that failed:
\* no model, and no diagnostic for the keyword.
C6_Witness ==
    /\ pc = "done" /\ stop = "NoDispatch"
    /\ has_errors /\ outcome = Nullopt
    /\ FailedSections # {}
    /\ \A i \in DOMAIN diagnostics_ : diagnostics_[i].begin < cur_token_.begin

-----------------------------------------------------------------------------
(* C8: in the table that parse_single_table builds, the key size is the      *)
(* number of keys of the first row stored, every stored row has that many    *)
(* keys, and the length of the content is a multiple of the key size plus    *)
(* one; also when the first row has no key.                                  *)
C8_KeySizeFixedByFirstRow ==
    (pc \in {"single_table", "table_keys", "tables"} /\ t_rows # <<>>) =>
        /\ key_size_ = Len(t_rows[1].keys)
        /\ \A i \in DOMAIN t_rows : Len(t_rows[i].keys) = key_size_
        /\ Len(content_) % (key_size_ + 1) = 0

-----------------------------------------------------------------------------
(* The value of the integer evaluator as a natural number.                   *)

\* The natural a word stands for: its limbs without the leading zero limbs.
RECURSIVE WordAsNatural(_)
WordAsNatural(x) ==
    IF x = <<>> THEN <<>>
    ELSE IF x[Len(x)] = 0 THEN WordAsNatural(SubSeq(x, 1, Len(x) - 1))
    ELSE x
\* a + b + carry on naturals.
RECURSIVE NaturalAdd(_, _, _)
NaturalAdd(a, b, carry) ==
    IF a = <<>> /\ b = <<>> THEN (IF carry = 0 THEN <<>> ELSE <<carry>>)
    ELSE LET t == (IF a = <<>> THEN 0 ELSE a[1]) + (IF b = <<>> THEN 0 ELSE b[1]) + carry
         IN  <<t % LimbBase>>
             \o NaturalAdd(IF a = <<>> THEN a ELSE Tail(a),
                           IF b = <<>> THEN b ELSE Tail(b), t \div LimbBase)
\* 2^64
TwoTo64 == <<0, 0, 0, 0, 1>>

-----------------------------------------------------------------------------
(* C11: on success the integer evaluator returns the value sign-extended to  *)
(* 64 bits, whatever the width: the magnitude m of a well-formed literal     *)
(* that is not negative, and 2^64 - m for one with a leading "-" and m > 0. *)
C11_SignExtendedTo64Bits ==
    (i_out # None /\ WellFormed(i_token) /\ i_out[1].value # None) =>
        LET m == Magnitude(i_token)
            v == WordAsNatural(i_out[1].value[1])
        IN  /\ Len(i_out[1].value[1]) = 4
            /\ IF LitNegative(i_token) /\ m # <<>>
               THEN NaturalAdd(v, m, 0) = TwoTo64
               ELSE v = m

\* A negative literal of a width below 64 bits was accepted with m > 1.
C11_Witness ==
    /\ i_out # None /\ WellFormed(i_token) /\ i_out[1].value # None
    /\ LitNegative(i_token) /\ i_bits = 8
    /\ Magnitude(i_token) = <<128>>
    /\ i_out[1].value[1] = <<LimbMax - 127, LimbMax, LimbMax, LimbMax>>

-----------------------------------------------------------------------------
(* C12: the literal -1 evaluated with width 8, signed, yields the 64-bit     *)
(* sign extension 0xFFFFFFFFFFFFFFFF of -1, whose low 8 bits are 0xFF.       *)
C12_MinusOneIsAllOnes ==
    (i_out # None /\ i_token = <<"-", "1">> /\ i_bits = 8 /\ i_signedness) =>
        /\ i_out[1].value = Some(U64Max)
        /\ i_out[1].value[1][1] % 256 = 255

\* -1 was evaluated with width 8, signed.
C12_Witness ==
    /\ i_out # None /\ i_token = <<"-", "1">> /\ i_bits = 8 /\ i_signedness
    /\ i_out[1].value # None

\* C12 as stated: the value is 0xFF.
C12_MinusOneIsFF ==
    (i_out # None /\ i_token = <<"-", "1">> /\ i_bits = 8 /\ i_signedness) =>
        i_out[1].value = Some(U64(255))

-----------------------------------------------------------------------------
(* C13: the integer evaluator rejects, with a diagnostic, every literal      *)
(* whose digit part holds a character, separators aside, that is no legal    *)
(* digit of the base inferred from its prefix: 0-1 for base 2, 0-7 for base  *)
(* 8, 0-9 for base 10, 0-9, a-f and A-F for base 16.                         *)
C13_IllegalDigitRejected ==
    (/\ i_out # None
     /\ \E i \in DOMAIN LitDigitPart(LitBody(i_token)) :
            /\ LitDigitPart(LitBody(i_token))[i] # "_"
            /\ LitDigitPart(LitBody(i_token))[i] \notin LegalDigits(LitBase(LitBody(i_token))))
    => /\ i_out[1].value = None
       /\ i_out[1].note # None

-----------------------------------------------------------------------------
(* C14: for every accepted literal the value returned is the positional      *)
(* value of its digit part, separators ignored, in the base of its prefix    *)
(* (0b or 0B: 2, 0x or 0X: 16, another leading 0: 8, else 10), negated       *)
(* modulo 2^64 after a leading "-"; 0x1F at width 8 unsigned gives 31, and   *)
(* 0 gives 0.                                                                *)
C14_ValueIsPositionalValue ==
    (i_out # None /\ i_out[1].value # None) =>
        LET m == Magnitude(i_token)
            v == WordAsNatural(i_out[1].value[1])
        IN  IF LitNegative(i_token) /\ m # <<>>
            THEN NaturalAdd(v, m, 0) = TwoTo64
            ELSE v = m

-----------------------------------------------------------------------------
(* C15: the integer evaluator gives no value and a diagnostic of the         *)
(* separator check for every literal whose digit part, after sign and base   *)
(* prefix, begins or ends with a separator or holds two separators in a row; *)
(* the separator check comes first, so that neither the digit check nor the  *)
(* evaluation decides about such a literal.                                  *)
C15_MisplacedSeparatorRejected ==
    (i_out # None /\ ~SeparatorsWellPlaced(LitDigitPart(LitBody(i_token)))) =>
        /\ i_out[1].value = None
        /\ i_out[1].note # None
        /\ i_out[1].note[1].message \in
               {"because the digit separator cannot be here",
                "because the digit separator cannot be used consecutively"}

\* 1__0 was evaluated and rejected for its consecutive separators.
C15_Witness ==
    /\ i_out # None
    /\ LitBody(i_token) = <<"1", "_", "_", "0">>
    /\ i_out[1].value = None
    /\ i_out[1].note # None
    /\ i_out[1].note[1].message = "because the digit separator cannot be used consecutively"

-----------------------------------------------------------------------------
(* C16: for a description over X and the full stop, BitMask holds exactly    *)
(* one BitRange per maximal run of X; its start is the index, counted from   *)
(* the right end of the description (bit 0), of the lowest bit of the run    *)
(* and its size the length of the run. The ranges are disjoint and not       *)
(* adjacent, none is empty, and the sizes sum to the number of X.            *)

\* Bit b of the description: its right end is bit 0.
BitSet(description, b) == description[Len(description) - b] = "X"

\* The maximal runs of set bits, as the set of their [start, size].
MaximalRuns(description) ==
    { r \in [start : 0..Len(description), size : 1..Len(description)] :
        /\ r.start + r.size <= Len(description)
        /\ \A b \in r.start..(r.start + r.size - 1) : BitSet(description, b)
        /\ r.start = 0 \/ ~BitSet(description, r.start - 1)
        /\ r.start + r.size = Len(description)
              \/ ~BitSet(description, r.start + r.size) }

RECURSIVE SumOfSizes(_)
SumOfSizes(ranges) ==
    IF ranges = <<>> THEN 0 ELSE Head(ranges).size + SumOfSizes(Tail(ranges))

C16_OneRangePerMaximalRun ==
    b_mask # None =>
        LET ranges == b_mask[1]
        IN  /\ { ranges[i] : i \in DOMAIN ranges } = MaximalRuns(b_description)
            /\ Len(ranges) = Cardinality(MaximalRuns(b_description))
            /\ \A i \in DOMAIN ranges : ranges[i].size > 0
            /\ \A i, j \in DOMAIN ranges :
                   i # j => \/ ranges[i].start + ranges[i].size < ranges[j].start
                            \/ ranges[j].start + ranges[j].size < ranges[i].start
            /\ SumOfSizes(ranges)
                   = Cardinality({ b \in 0..(Len(b_description) - 1) :
                                       BitSet(b_description, b) })
            /\ (\A b \in 0..(Len(b_description) - 1) : ~BitSet(b_description, b))
                   => ranges = <<>>

\* XX.. was constructed and gave the one range of start 2 and size 2.
C16_Witness ==
    /\ b_description = <<"X", "X", ".", ".">>
    /\ b_mask = Some(<<[start |-> 2, size |-> 2]>>)

-----------------------------------------------------------------------------
(* C17: a FunctionalUnit that parse_functional_unit returns has an encoding  *)
(* width from 1 to 128, and each bitmask it holds went through the length    *)
(* check against that width, so that each of its ranges lies below the       *)
(* width; whatever items the FUNIT section holds, in whatever order.         *)

\* parse_functional_unit has just returned a FunctionalUnit.
FunctionalUnitReturned ==
    /\ returns # <<>>
    /\ returns[Len(returns)].section = "functional_unit"
    /\ returns[Len(returns)].success
    /\ pc = "driver"

\* The encoding width is set and is the 32-bit word of width.
EncodingWidthIs(unit, width) ==
    unit.encoding_width # Uninitialized /\ unit.encoding_width = U32(width)

C17_WidthInRangeAndBitmasksChecked ==
    FunctionalUnitReturned =>
        LET unit == parse_result.functional_unit
        IN  /\ \E width \in 1..128 : EncodingWidthIs(unit, width)
            /\ \A name \in DOMAIN unit.bitmasks :
                   \A i \in DOMAIN unit.bitmasks[name] :
                       \E width \in 1..128 :
                           /\ EncodingWidthIs(unit, width)
                           /\ unit.bitmasks[name][i].start
                                  + unit.bitmasks[name][i].size <= width

-----------------------------------------------------------------------------
(* C18: resolve_table_element leaves the lexer one token further than it     *)
(* found it, whichever way it returns. An element category@name is three     *)
(* tokens long, and for it the lexer is left past the name.                  *)

\* parse_single_table is about to call resolve_table_element: for a key, or
\* past the arrow for the value of a row that has the keys of the table.
AtTableElement ==
    /\ pc = "table_keys"
    /\ cur_token_.kind = "PunctuatorArrow" => (key_size_ = 0 \/ key_size_ = Len(frame.keys))

\* The lexer as the call finds it.
ElementEntry ==
    IF cur_token_.kind = "PunctuatorArrow" THEN advance(source_, PS(Machine)) ELSE PS(Machine)

\* The lexer one token, or one element category@name, past ps.
PastElement(source, ps) ==
    IF /\ ps.cur_token_.kind \in {"Identifier", "String"}
       /\ advance(source, ps).cur_token_.kind = "PunctuatorAt"
    THEN advance(source, advance(source, advance(source, ps)))
    ELSE advance(source, ps)

C18_AdvancesByOneElement ==
    AtTableElement =>
        LET returned == resolve_table_element(source_, ElementEntry, parse_result.registers).ps
            past == PastElement(source_, ElementEntry)
        IN  returned.cur_token_ = past.cur_token_ /\ returned.current_ = past.current_

-----------------------------------------------------------------------------
(* C19: an element of a table row resolves to the 32-bit value of an         *)
(* integer, to MATCH_ANY for -, to the value of the register for             *)
(* category@name, and to the ordinal of the character for a bare identifier  *)
(* or string of one character; and it leaves the lexer at the token that     *)
(* follows the element, so that the row 'A' -> 1 is stored with the key 65   *)
(* and the value 1.                                                          *)

\* The text of an identifier, or of a string without its quotes.
Unquoted(text) == IF text[1] = "'" THEN SubSeq(text, 2, Len(text) - 1) ELSE text

\* What the element at the lexer state ps stands for.
ElementValue(source, ps, register_table) ==
    LET text == content(source, ps.cur_token_)
        at == advance(source, ps)
        name == Unquoted(content(source, advance(source, at).cur_token_))
        regs == register_table[Unquoted(text)]
    IN  IF ps.cur_token_.kind = "Integer" THEN WordAsNatural(Magnitude(text))
        ELSE IF ps.cur_token_.kind = "PunctuatorMinus" THEN WordAsNatural(MATCH_ANY)
        ELSE IF at.cur_token_.kind = "PunctuatorAt"
        THEN WordAsNatural(regs[Max(SameNameRegs(regs, name))].value)
        ELSE WordAsNatural(U32(Ord(Unquoted(text)[1])))

RowExample == Text(<<"TABLES", "T", "'A'", "->", "1", ";">>)

C19_ElementsResolveInPlace ==
    /\ AtTableElement =>
           LET resolved == resolve_table_element(source_, ElementEntry, parse_result.registers)
           IN  resolved.value # None =>
                   /\ WordAsNatural(resolved.value[1])
                          = ElementValue(source_, ElementEntry, parse_result.registers)
                   /\ Len(resolved.value[1]) = 2
                   /\ resolved.ps.cur_token_ = PastElement(source_, ElementEntry).cur_token_
    /\ (pc = "done" /\ source_ = RowExample) =>
           /\ ReturnsModel
           /\ <<"T">> \in DOMAIN outcome[1].tables
           /\ outcome[1].tables[<<"T">>] = [content_ |-> <<U32(65), U32(1)>>, key_size_ |-> 1]

-----------------------------------------------------------------------------
(* C20: when a row has another number of keys than the first row of the      *)
(* table, parse_single_table appends exactly one diagnostic and abandons the *)
(* table with all its rows, recovering to the next semicolon or to the end   *)
(* of the text; parse_tables then goes on with the tables that follow and    *)
(* returns no value for the section.                                         *)

\* A row with another number of keys than the rows of the table stands at
\* its arrow.
AtKeyMismatch ==
    /\ pc = "table_keys"
    /\ cur_token_.kind = "PunctuatorArrow"
    /\ t_rows # <<>>
    /\ Len(frame.keys) # Len(t_rows[1].keys)

C20_KeyMismatchAbandonsTable ==
    [][/\ AtKeyMismatch =>
              /\ Len(diagnostics_') = Len(diagnostics_) + 1
              /\ pc' = "lex_until"
              /\ until'.cond = "PunctuatorSemi" /\ ~until'.consume
              /\ until'.ret = "single_table_failed"
              /\ frame'.result = frame.result
       /\ pc = "single_table_failed" =>
              /\ cur_token_.kind \in {"PunctuatorSemi", "End"}
              /\ pc' = "tables"
              /\ frame'.has_errors
              /\ frame'.result = frame.result]_vars

-----------------------------------------------------------------------------
(* C21: in PARAMETERS, CONSTANTS and STRING_MAP a name that is defined again *)
(* never replaces the stored entry: the first value is kept, each duplicate  *)
(* appends exactly one diagnostic, the loop goes on with the entries that    *)
(* follow, and the section returns no value.                                 *)

InMapSection == pc \in {"constant_map", "string_map"}

\* The three tokens the loop of the section is about to read.
ItemTokens ==
    LET name == advance(source_, PS(Machine))
        second == advance(source_, name)
        third == advance(source_, second)
    IN  <<name.cur_token_, second.cur_token_, third.cur_token_>>

\* They are an entry, and its name is stored already.
DuplicateItem ==
    /\ InMapSection
    /\ ItemTokens[1].kind = "Identifier"
    /\ content(source_, ItemTokens[1]) \in DOMAIN frame.result_map
    /\ IF pc = "constant_map"
       THEN ItemTokens[2].kind = "PunctuatorEqual" /\ ItemTokens[3].kind = "Integer"
       ELSE ItemTokens[2].kind = "PunctuatorArrow" /\ ItemTokens[3].kind = "Identifier"

C21_DuplicateKeepsFirstDefinition ==
    [][/\ (InMapSection /\ pc' = pc) =>
              \A name \in DOMAIN frame.result_map :
                  /\ name \in DOMAIN frame'.result_map
                  /\ frame'.result_map[name] = frame.result_map[name]
       /\ DuplicateItem =>
              /\ pc' = pc
              /\ Len(diagnostics_') = Len(diagnostics_) + 1
              /\ frame'.has_errors
              /\ frame'.result_map = frame.result_map
              /\ cur_token_' = ItemTokens[3]
       /\ (InMapSection /\ frame.has_errors) =>
              IF pc' = pc THEN frame'.has_errors
              ELSE /\ ~returns'[Len(returns')].success
                   /\ parse_result' = parse_result]_vars

\* CONSTANTS A = 1 A = 2 A = 5: both duplicates were reported and A is 1.
C21_Witness ==
    /\ pc = "constant_map"
    /\ frame.has_errors
    /\ <<"A">> \in DOMAIN frame.result_map
    /\ frame.result_map[<<"A">>] = U32(1)
    /\ Len(diagnostics_) = 2
    /\ \A i \in 1..2 : diagnostics_[i].message = "Duplicate constant name"
    /\ content(source_, cur_token_) = <<"5">>

-----------------------------------------------------------------------------
(* C22: for OPERATION PROPERTIES and OPERATION PREDICATES the list returned  *)
(* holds the identifiers between the section keyword and the first          *)
(* semicolon, in order, and the current token is then the one after that     *)
(* semicolon; a semicolon right after the keyword gives the empty list; a    *)
(* token that is no identifier before the semicolon is an error, and the     *)
(* recovery stops past the semicolon.                                        *)

\* The tokens of the source from the lexer state ps on, End being the last.
RECURSIVE TokensFrom(_, _)
TokensFrom(source, ps) ==
    Let(advance(source, ps), LAMBDA next :
        IF next.cur_token_.kind = "End" THEN <<next.cur_token_>>
        ELSE <<next.cur_token_>> \o TokensFrom(source, next))
AllTokens(source) ==
    TokensFrom(source, [current_ |-> 0, cur_token_ |-> Token("Unknown", 0, 0),
                        diagnostics_ |-> <<>>])

\* The index of the first semicolon after the token k, or 0.
FirstSemicolonAfter(tokens, k) ==
    LET S == { j \in (k + 1)..Len(tokens) : tokens[j].kind = "PunctuatorSemi" }
    IN  IF S = {} THEN 0 ELSE Min(S)

\* The list of the section whose keyword is the token k is well formed, and
\* list and token are its identifiers and the token after its semicolon.
IsListOf(source, tokens, k, list, token) ==
    LET semi == FirstSemicolonAfter(tokens, k)
    IN  /\ semi # 0
        /\ \A j \in (k + 1)..(semi - 1) : tokens[j].kind = "Identifier"
        /\ list = [i \in 1..(semi - 1 - k) |-> content(source, tokens[k + i])]
        /\ token = tokens[semi + 1]

OperationSections == {"operation_properties", "operation_predicates"}

C22_ListIsIdentifiersUpToSemicolon ==
    /\ ( /\ returns # <<>> /\ pc = "driver"
         /\ returns[Len(returns)].section \in OperationSections
         /\ returns[Len(returns)].success ) =>
           LET tokens == AllTokens(source_)
               section == returns[Len(returns)].section
           IN  \E k \in 2..Len(tokens) :
                   /\ tokens[k - 1].kind = "KeywordOperation"
                   /\ tokens[k].kind = IF section = "operation_properties"
                                       THEN "KeywordProperties" ELSE "KeywordPredicates"
                   /\ IsListOf(source_, tokens, k, parse_result[section], cur_token_)
    /\ pc = "identifier_list_failed" =>
           LET tokens == AllTokens(source_)
           IN  /\ diagnostics_ # <<>>
               /\ \/ cur_token_.kind = "End"
                  \/ \E j \in 1..(Len(tokens) - 1) :
                         tokens[j].kind = "PunctuatorSemi" /\ tokens[j + 1] = cur_token_

-----------------------------------------------------------------------------
(* C23: an entry name = v of a register list appends (name, v); an entry     *)
(* name(b..e) = (c..d) with e - b = d - c appends (name<b+i>, c+i) for       *)
(* i = 0..e-b in order; an entry with another number of names than of values *)
(* fails the category; an entry without = appends its name with the value    *)
(* of the register appended last plus 1, or with 0 in an empty group.        *)

\* The lexer state n tokens after ps.
RECURSIVE Ahead(_, _, _)
Ahead(source, ps, n) == IF n = 0 THEN ps ELSE Ahead(source, advance(source, ps), n - 1)

\* The kinds and the contents of the tokens from the current one on.
EntryKinds(n) == [i \in 1..n |-> Ahead(source_, PS(Machine), i - 1).cur_token_.kind]
EntryText(i) == content(source_, Ahead(source_, PS(Machine), i - 1).cur_token_)

\* The value of a well-formed literal below 2^16, as a number.
SmallValue(text) == IF Magnitude(text) = <<>> THEN 0 ELSE Magnitude(text)[1]
IsSmallValue(text) == WellFormed(text) /\ Len(Magnitude(text)) <= 1

RangeKinds ==
    <<"PunctuatorLeftParen", "Integer", "PunctuatorDot", "PunctuatorDot", "Integer",
      "PunctuatorRightParen">>

\* The entry at the current token is name = v.
ScalarEntry ==
    /\ EntryKinds(3) = <<"Identifier", "PunctuatorEqual", "Integer">>
    /\ IsSmallValue(EntryText(3))
\* It is name(b..e) = (c..d).
RangeEntry ==
    /\ EntryKinds(14) = <<"Identifier">> \o RangeKinds \o <<"PunctuatorEqual">> \o RangeKinds
    /\ \A i \in {3, 6, 10, 13} : IsSmallValue(EntryText(i))
    /\ SmallValue(EntryText(3)) <= SmallValue(EntryText(6))
    /\ SmallValue(EntryText(10)) <= SmallValue(EntryText(13))
\* It is a name without a value.
DefaultEntry ==
    /\ EntryKinds(1) = <<"Identifier">>
    /\ EntryKinds(2)[2] \notin {"PunctuatorEqual", "PunctuatorLeftParen", "PunctuatorStar"}

\* The registers name<b+i> with the values c+i, for i = 0..count-1.
RangeRegisters(name, b, c, count) ==
    [i \in 1..count |-> [name |-> name \o ToDecimal(U32(b + i - 1)),
                         value |-> U32(c + i - 1)]]

C23_RegisterListEntries ==
    [][pc = "register_list" =>
          /\ ScalarEntry =>
                 frame'.registers = Append(frame.registers,
                                           [name |-> EntryText(1),
                                            value |-> U32(SmallValue(EntryText(3)))])
          /\ RangeEntry =>
                 LET b == SmallValue(EntryText(3))
                     e == SmallValue(EntryText(6))
                     c == SmallValue(EntryText(10))
                     d == SmallValue(EntryText(13))
                 IN  IF e - b = d - c
                     THEN frame'.registers
                              = frame.registers \o RangeRegisters(EntryText(1), b, c, e - b + 1)
                     ELSE frame'.has_errors /\ pc' = "lex_until"
          /\ DefaultEntry =>
                 frame'.registers
                     = Append(frame.registers,
                              [name |-> EntryText(1),
                               value |-> IF frame.registers = <<>> THEN U32(0)
                                         ELSE WordAdd(frame.registers[Len(frame.registers)].value,
                                                      1)])]_vars

-----------------------------------------------------------------------------
(* C24: for 32-bit bounds b <= e the range expression (b..e) has e - b + 1   *)
(* elements, b first and e last, also when e is 2^32 - 1 and when the two    *)
(* bounds are the same value 2^32 - 1; with b > e the expression is rejected *)
(* with a diagnostic.                                                        *)
C24_RangeSizeAndElements ==
    x_out # None =>
        IF WordLess(x_end, x_begin)
        THEN x_out[1].value = None /\ x_out[1].diagnostic # None
        ELSE /\ ~x_out[1].aborted
             /\ x_out[1].value # None
             /\ x_out[1].value[1].first = x_begin
             /\ NaturalAdd(WordAsNatural(x_begin),
                           WordAsNatural(range_size(x_out[1].value[1])), 0)
                    = NaturalAdd(WordAsNatural(x_end), <<1>>, 0)

-----------------------------------------------------------------------------
(* C25: every call of next_token() gives one token, whose content is the     *)
(* slice of the source from its offset over its length. A token other than   *)
(* End is at least one character long and begins at or after the end of the  *)
(* token before it; a character the lexer has no case for gives an Unknown   *)
(* token of length 1; and after End every call gives End again.              *)

\* The characters next_token has a case for, white space apart.
Recognised ==
    Range(DigitSeq) \cup Range(UpperSeq) \cup Range(LowerSeq) \cup {"_", "\"", "'"}
        \cup DOMAIN Punctuator1

C25_LexerNeverFails ==
    [][pc = "lex" =>
          /\ cur_token_.end <= cur_token_'.begin
          /\ cur_token_'.begin <= cur_token_'.end
          /\ cur_token_'.end <= Len(source_)
          /\ current_' = cur_token_'.end
          /\ \A i \in (cur_token_.end + 1)..cur_token_'.begin : isspace(source_[i])
          /\ Len(content(source_, cur_token_')) = cur_token_'.end - cur_token_'.begin
          /\ IF cur_token_'.kind = "End"
             THEN cur_token_'.begin = Len(source_) /\ cur_token_'.end = Len(source_)
             ELSE /\ cur_token_'.begin < cur_token_'.end
                  /\ ~isspace(source_[cur_token_'.begin + 1])
                  /\ (cur_token_'.kind = "Unknown"
                          <=> source_[cur_token_'.begin + 1] \notin Recognised)
                  /\ cur_token_'.kind = "Unknown"
                          => cur_token_'.end = cur_token_'.begin + 1
          /\ cur_token_.kind = "End" => cur_token_'.kind = "End"]_vars

\* The lexer gave an Unknown token for # after an identifier, and End after it.
C25_Witness ==
    /\ pc = "lex"
    /\ source_ = <<"a", " ", "#">>
    /\ cur_token_ = Token("End", 3, 3)

-----------------------------------------------------------------------------
(* C26: the items of the FUNIT section other than ENCODING WIDTH.            *)

\* The parser is at the value of an item whose name is not ENCODING WIDTH.
AtFUnitItemValue ==
    /\ pc = "funit_item"
    /\ content(source_, until.merged) # EncodingWidthName
\* The text of the string at the current token, when it is a terminated one.
ItemString == get_string_literal(source_, PS(Machine), cur_token_).value
\* The value is a valid bitmask: a string of `width` characters . and X.
ValidBitmask(width) ==
    /\ cur_token_.kind = "String"
    /\ ItemString # None
    /\ U32(Len(ItemString[1])) = width
    /\ \A i \in DOMAIN ItemString[1] : ItemString[1][i] \in {".", "X"}
\* The item is skipped: the parser recovers to the next semicolon, and
\* neither the error flag of the section nor its result changes.
ItemSkipped ==
    /\ pc' = "lex_until" /\ until'.cond = "PunctuatorSemi" /\ until'.ret = "funit"
    /\ frame' = frame
    /\ diagnostics_' = diagnostics_
\* The item makes the section fail with one more diagnostic.
ItemFails ==
    /\ pc' = "funit"
    /\ frame'.has_errors
    /\ frame'.result = frame.result
    /\ Len(diagnostics_') = Len(diagnostics_) + 1
\* The recovery of a skipped item leaves the section as it is.
SkipKeepsSection ==
    pc = "lex_until" /\ until.ret = "funit" => frame' = frame

\* C26, as stated: every item that is neither ENCODING WIDTH nor a valid
\* bitmask is skipped by recovering to the next semicolon without making the
\* section fail, a string of the wrong length or with other characters
\* included; a valid bitmask whose name is already recorded is an error.
C26_InvalidItemsAreSkipped ==
    [][/\ AtFUnitItemValue /\ frame.result.encoding_width # Uninitialized =>
             IF ValidBitmask(frame.result.encoding_width)
             THEN content(source_, until.merged) \in DOMAIN frame.result.bitmasks
                      => ItemFails
             ELSE ItemSkipped
       /\ SkipKeepsSection]_vars

\* C26, amended: an item whose value is no string literal is skipped by
\* recovering to the next semicolon without making the section fail. An item
\* whose value is a string literal is taken as a bitmask: a string that is
\* not valid for the encoding width, or a valid one whose name is already
\* recorded, appends a diagnostic and makes the section fail; a valid one
\* with a new name is recorded. Before the encoding width is set the string
\* is either recorded or makes the section fail.
C26_InvalidBitmaskFailsSection ==
    [][/\ AtFUnitItemValue =>
             IF cur_token_.kind # "String" THEN ItemSkipped
             ELSE IF frame.result.encoding_width = Uninitialized
             THEN /\ pc' = "funit"
                  /\ \/ frame'.has_errors /\ frame'.result = frame.result
                     \/ /\ frame'.has_errors = frame.has_errors
                        /\ content(source_, until.merged) \in DOMAIN frame'.result.bitmasks
             ELSE IF ~ValidBitmask(frame.result.encoding_width) THEN ItemFails
             ELSE IF content(source_, until.merged) \in DOMAIN frame.result.bitmasks
             THEN /\ ItemFails
                  /\ diagnostics_'[Len(diagnostics_')].message = "Duplicate bitmask name"
             ELSE /\ pc' = "funit"
                  /\ frame'.has_errors = frame.has_errors
                  /\ diagnostics_' = diagnostics_
                  /\ frame'.result.bitmasks =
                         frame.result.bitmasks
                             @@ (content(source_, until.merged) :> BitMask(ItemString[1]))
       /\ SkipKeepsSection]_vars

\* A string of one character, where the encoding width is 4, made the FUNIT
\* section fail, which had no error before.
C26_Witness ==
    /\ pc = "funit"
    /\ frame.has_errors
    /\ EncodingWidthIs(frame.result, 4)
    /\ frame.result.bitmasks = EmptyMap
    /\ Len(diagnostics_) = 1
    /\ diagnostics_[1].message = "The bitmask must be N bits long"
    /\ content(source_, cur_token_) = <<"'", "X", "'">>

-----------------------------------------------------------------------------
(* C27: whenever parse() returns no model, the list of diagnostics holds at  *)
(* least one diagnostic: as many diagnostics were appended as sections       *)
(* failed, and each failure of a section routine or of the check of a        *)
(* keyword pair is reported after a diagnostic located in that section, past *)
(* the token at which the section before it returned.                        *)

\* This step reports the failure of a section to the driver.
ReportsFailure ==
    /\ Len(returns') = Len(returns) + 1
    /\ ~returns'[Len(returns')].success
\* The offset at which the last section returned.
LastReturnOffset == IF returns = <<>> THEN 0 ELSE returns[Len(returns)].token.begin

C27_NoModelHasDiagnostic ==
    [][/\ (pc' = "done" /\ outcome' = Nullopt) => diagnostics_' # <<>>
       /\ Cardinality({ i \in DOMAIN returns' : ~returns'[i].success })
              <= Len(diagnostics_')
       /\ ReportsFailure =>
             /\ diagnostics_' # <<>>
             /\ diagnostics_'[Len(diagnostics_')].begin > LastReturnOffset]_vars

\* parse() returned no model after two failures: the check of the keyword
\* after OPERATION, which found A, and the section routine of CONSTANTS.
C27_Witness ==
    /\ pc = "done"
    /\ outcome = Nullopt
    /\ stop = "End"
    /\ Len(returns) = 2
    /\ returns[1].section = "operation_properties" /\ ~returns[1].success
    /\ returns[1].token = Token("Identifier", 10, 11)
    /\ returns[2].section = "constants" /\ ~returns[2].success
    /\ Len(diagnostics_) >= 2

-----------------------------------------------------------------------------
(* C28: parse_tables resolves category@name against the register table of    *)
(* the model, which holds what the last successful REGISTERS section before  *)
(* it stored. Without such a section (REGISTERS comes later, is absent, or   *)
(* failed) that table is empty, and every element category@name is reported  *)
(* as an unknown register category, which rejects its row.                   *)

\* A REGISTERS section has returned its table.
RegistersStored ==
    \E i \in DOMAIN returns : returns[i].section = "registers" /\ returns[i].success
\* The element about to be resolved is category@name.
AtRegisterElement ==
    /\ AtTableElement
    /\ ElementEntry.cur_token_.kind \in {"Identifier", "String"}
    /\ get_identifier_or_string(source_, ElementEntry, ElementEntry.cur_token_).value # None
    /\ Ahead(source_, ElementEntry, 1).cur_token_.kind = "PunctuatorAt"
    /\ Ahead(source_, ElementEntry, 2).cur_token_.kind \in {"Identifier", "String"}
    /\ get_identifier_or_string(source_, ElementEntry,
                                Ahead(source_, ElementEntry, 2).cur_token_).value # None
\* The category and the name of that element.
ElementCategory ==
    get_identifier_or_string(source_, ElementEntry, ElementEntry.cur_token_).value[1]
ElementName ==
    get_identifier_or_string(source_, ElementEntry, Ahead(source_, ElementEntry, 2).cur_token_).value[1]
\* The row is rejected with this diagnostic.
RowRejectedWith(diag) ==
    /\ diagnostics_' = Append(diagnostics_, diag)
    /\ pc' = "lex_until" /\ until'.ret = "single_table_failed"
\* The element is taken with this value, as a key or as the value of the row.
ElementTaken(value) ==
    /\ diagnostics_' = diagnostics_
    /\ IF cur_token_.kind = "PunctuatorArrow"
       THEN /\ pc' = "single_table"
            /\ t_rows' = Append(t_rows, [keys |-> frame.keys, value |-> value])
       ELSE /\ pc' = "table_keys"
            /\ frame'.keys = Append(frame.keys, value)
TwoSections ==
    Text(<<"REGISTERS", "C", "A", "=", "1", ",", "B", ";", "U", "=", "C", "+", "C", ";",
           "TABLES", "T", "1", "C", "@", "A", "->", "2", "-", "5", "->", "1", ";">>)

-----------------------------------------------------------------------------
(* C29: a field of the model is written only in the step in which its        *)
(* section routine returns a value, and then the field becomes that value    *)
(* as a whole, with no diagnostic for a section that was seen before; a      *)
(* section that fails, and every other step, leaves all fields as they are.  *)
(* After PARAMETERS A = 1 PARAMETERS B = 2 the model holds B alone.          *)

\* This step reports the return of a section routine with a value.
ReportsSuccess ==
    /\ Len(returns') = Len(returns) + 1
    /\ returns'[Len(returns')].success
\* The value the section routine in progress has built.
\* parse_identifier_list returns in the iteration that appends its last item.
SectionResult ==
    IF "result_map" \in DOMAIN frame THEN frame.result_map
    ELSE IF frame.section \in {"operation_properties", "operation_predicates"}
    THEN Append(frame.result, content(source_, cur_token_))
    ELSE frame.result
RepeatedSection == Text(<<"PARAMETERS", "A", "=", "1", "PARAMETERS", "B", "=", "2">>)

C29_FieldReplacedOnSuccessOnly ==
    [][/\ ReportsSuccess =>
             /\ parse_result' =
                    [parse_result EXCEPT ![returns'[Len(returns')].section] = SectionResult]
             /\ diagnostics_' = diagnostics_
       /\ ~ReportsSuccess => parse_result' = parse_result
       /\ (pc' = "done" /\ source_ = RepeatedSection) =>
             /\ outcome' = Some([DefaultISA EXCEPT !.parameters = <<"B">> :> U32(2)])
             /\ diagnostics_' = <<>>
             /\ Len(returns') = 2]_vars

\* The second PARAMETERS section of a file has returned: the model, which
\* held A, holds B alone.
C29_Witness ==
    /\ pc = "driver"
    /\ source_ = RepeatedSection
    /\ Len(returns) = 2
    /\ parse_result.parameters = <<"B">> :> U32(2)
    /\ diagnostics_ = <<>>

-----------------------------------------------------------------------------
(* C30: a table key written as the literal 4294967295 is stored with the     *)
(* value of the wildcard -, MATCH_ANY = 2^32 - 1, and matches every key of a *)
(* query in Table::get_value: the table of 4294967295 -> 1 2 -> 3 is the     *)
(* table of - -> 1 2 -> 3, and gives 1 for every key.                        *)

LiteralKey == <<"4", "2", "9", "4", "9", "6", "7", "2", "9", "5">>
LiteralKeyTable == Text(<<"TABLES", "T", "4294967295", "->", "1", "2", "->", "3", ";">>)
WildcardTable == Text(<<"TABLES", "T", "-", "->", "1", "2", "->", "3", ";">>)
QueryKeys == { U32(0), U32(1), U32(2), U32(65535), <<0, 1>>, <<LimbMax, LimbMax>> }

C30_MaximalKeyIsWildcard ==
    [][/\ (/\ pc = "table_keys"
           /\ cur_token_.kind = "Integer"
           /\ content(source_, cur_token_) = LiteralKey) =>
             /\ pc' = "table_keys"
             /\ diagnostics_' = diagnostics_
             /\ frame'.keys = Append(frame.keys, MATCH_ANY)
             /\ WordAsNatural(frame'.keys[Len(frame'.keys)]) = <<LimbMax, LimbMax>>
       /\ (pc' = "done" /\ source_ \in {LiteralKeyTable, WildcardTable}) =>
             /\ outcome' # Nullopt
             /\ outcome'[1].tables[<<"T">>] =
                    [content_ |-> <<MATCH_ANY, U32(1), U32(2), U32(3)>>, key_size_ |-> 1]
             /\ \A key \in QueryKeys :
                    get_value(outcome'[1].tables[<<"T">>].content_, 1, <<key>>)
                        = Some(U32(1))]_vars

\* parse() has returned the table of 4294967295 -> 1 2 -> 3, in which the
\* query 2 finds the first row.
C30_Witness ==
    /\ pc = "done"
    /\ source_ = LiteralKeyTable
    /\ outcome # Nullopt
    /\ get_value(outcome[1].tables[<<"T">>].content_, 1, <<U32(2)>>) = Some(U32(1))

=============================================================================
